---------------------------- MODULE Spec2Model ----------------------------
(***************************************************************************)
(* epub2cbz: conversion of one EPUB archive into a CBZ archive             *)
(* (processFile) and the batch runner over a directory (processDirectory). *)
(*                                                                         *)
(* Strings that the code takes apart (paths, entry names, decimal numbers) *)
(* are sequences of one-character strings; metadata text is a sequence of  *)
(* code points.                                                            *)
(***************************************************************************)
EXTENDS Integers, Sequences, FiniteSets, TLC

(***************************************************************************)
(* Bounds of the model                                                     *)
(***************************************************************************)
\* longest spine enumerated exhaustively over the manifest ids
MaxSpine == 3
\* number of invocations of processFile on the same arguments
MaxRuns == 2
\* most files discovered by the batch runner
MaxFiles == 3
\* largest runtime.NumCPU() considered
MaxCPU == 2

(***************************************************************************)
(* strings, strconv, fmt                                                   *)
(***************************************************************************)
Digit == <<"0", "1", "2", "3", "4", "5", "6", "7", "8", "9">>

RECURSIVE Itoa(_)
\* strconv.Itoa for n >= 0
Itoa(n) == IF n < 10 THEN <<Digit[n + 1]>>
           ELSE Itoa(n \div 10) \o <<Digit[(n % 10) + 1]>>

RECURSIVE Zeros(_)
Zeros(k) == IF k <= 0 THEN <<>> ELSE <<"0">> \o Zeros(k - 1)

\* fmt.Sprintf("%0*d", width, n) for n >= 0: pads up to width, never truncates
SprintfPad(width, n) == Zeros(width - Len(Itoa(n))) \o Itoa(n)

HasPrefix(s, p) == Len(s) >= Len(p) /\ SubSeq(s, 1, Len(p)) = p
HasSuffix(s, p) == Len(s) >= Len(p) /\ SubSeq(s, Len(s) - Len(p) + 1, Len(s)) = p
TrimPrefix(s, p) == IF HasPrefix(s, p) THEN SubSeq(s, Len(p) + 1, Len(s)) ELSE s
TrimSuffix(s, p) == IF HasSuffix(s, p) THEN SubSeq(s, 1, Len(s) - Len(p)) ELSE s

UpperLetters == <<"A", "B", "C", "D", "E", "F", "G", "H", "I", "J", "K", "L", "M",
                  "N", "O", "P", "Q", "R", "S", "T", "U", "V", "W", "X", "Y", "Z">>
LowerLetters == <<"a", "b", "c", "d", "e", "f", "g", "h", "i", "j", "k", "l", "m",
                  "n", "o", "p", "q", "r", "s", "t", "u", "v", "w", "x", "y", "z">>
Lower(ch) == IF \E i \in 1..Len(UpperLetters) : UpperLetters[i] = ch
             THEN LowerLetters[CHOOSE i \in 1..Len(UpperLetters) : UpperLetters[i] = ch]
             ELSE ch
\* strings.ToLower (ASCII letters)
ToLower(arg) == CHOOSE r \in {[i \in 1..Len(s) |-> Lower(s[i])] : s \in {arg}} : TRUE

(***************************************************************************)
(* path/filepath (Unix: Separator is '/')                                  *)
(***************************************************************************)
Separator == "/"

\* An operator below that walks its argument takes it as arg and binds its
\* value once, as e \in {arg}, so that the walk handles a value.

\* index of the last separator of p, 0 when there is none
LastSep(arg) ==
  CHOOSE r \in {IF \E i \in 1..Len(p) : p[i] = Separator
                THEN CHOOSE i \in 1..Len(p) :
                       /\ p[i] = Separator
                       /\ \A j \in (i + 1)..Len(p) : p[j] # Separator
                ELSE 0 : p \in {arg}} : TRUE

RECURSIVE SplitPath(_)
\* the elements of p between separators (empty elements kept)
SplitPath(arg) ==
  CHOOSE r \in {IF n = 0 THEN <<p>>
                ELSE SplitPath(SubSeq(p, 1, n - 1)) \o <<SubSeq(p, n + 1, Len(p))>> :
                <<p, n>> \in {<<arg, LastSep(arg)>>}} : TRUE

RECURSIVE CleanElems(_, _, _)
\* filepath.Clean's pass over the elements: drops "" and ".", resolves ".."
CleanElems(arg, rooted, acc) ==
  CHOOSE r \in
    {IF elems = <<>> THEN out
     ELSE LET e == Head(elems)
              rest == Tail(elems)
          IN  IF e = <<>> \/ e = <<".">> THEN CleanElems(rest, rooted, out)
              ELSE IF e = <<".", ".">>
                   THEN IF out # <<>> /\ out[Len(out)] # <<".", ".">>
                        THEN CleanElems(rest, rooted, SubSeq(out, 1, Len(out) - 1))
                        ELSE IF rooted THEN CleanElems(rest, rooted, out)
                             ELSE CleanElems(rest, rooted, Append(out, e))
                   ELSE CleanElems(rest, rooted, Append(out, e)) :
     elems \in {arg}, out \in {acc}} : TRUE

RECURSIVE JoinElems(_)
JoinElems(arg) ==
  CHOOSE r \in {IF elems = <<>> THEN <<>>
                ELSE IF Len(elems) = 1 THEN elems[1]
                ELSE elems[1] \o <<Separator>> \o JoinElems(Tail(elems)) :
                elems \in {arg}} : TRUE

Clean(arg) ==
  CHOOSE r \in
    {IF p = <<>> THEN <<".">>
     ELSE LET rooted == p[1] = Separator
              body == JoinElems(CleanElems(SplitPath(p), rooted, <<>>))
          IN  IF rooted THEN <<Separator>> \o body
              ELSE IF body = <<>> THEN <<".">> ELSE body :
     p \in {arg}} : TRUE

\* filepath.Dir
Dir(p) == Clean(SubSeq(p, 1, LastSep(p)))

\* filepath.Join of two elements
Join(a, b) == IF a = <<>> /\ b = <<>> THEN <<>>
              ELSE IF a = <<>> THEN Clean(b)
              ELSE Clean(a \o <<Separator>> \o b)

\* filepath.ToSlash
ToSlash(arg) ==
  CHOOSE r \in {[i \in 1..Len(p) |-> IF p[i] = Separator THEN "/" ELSE p[i]] :
                p \in {arg}} : TRUE

\* filepath.Ext: from the last dot of the last element, "" when it has none
Ext(p) == LET last == SubSeq(p, LastSep(p) + 1, Len(p))
          IN  IF \E i \in 1..Len(last) : last[i] = "."
              THEN LET i == CHOOSE k \in 1..Len(last) :
                              /\ last[k] = "."
                              /\ \A j \in (k + 1)..Len(last) : last[j] # "."
                   IN  SubSeq(last, i, Len(last))
              ELSE <<>>

RECURSIVE StripTrailingSep(_)
StripTrailingSep(p) == IF p # <<>> /\ p[Len(p)] = Separator
                       THEN StripTrailingSep(SubSeq(p, 1, Len(p) - 1))
                       ELSE p

\* filepath.Base
Base(p) == IF p = <<>> THEN <<".">>
           ELSE LET q == StripTrailingSep(p)
                    b == SubSeq(q, LastSep(q) + 1, Len(q))
                IN  IF b = <<>> THEN <<Separator>> ELSE b


(***************************************************************************)
(* Fixed names of the program                                              *)
(***************************************************************************)
EpubExt == <<".", "e", "p", "u", "b">>
CbzExt == <<".", "c", "b", "z">>
ContainerXML == <<"M", "E", "T", "A", "-", "I", "N", "F", "/",
                  "c", "o", "n", "t", "a", "i", "n", "e", "r", ".", "x", "m", "l">>
ComicInfoXML == <<"C", "o", "m", "i", "c", "I", "n", "f", "o", ".", "x", "m", "l">>
PagePrefix == <<"p", "a", "g", "e">>

(***************************************************************************)
(* Archive entries.  An entry of a zip archive is                          *)
(*   [Name, openOk, readOk, data]                                          *)
(* openOk: File.Open succeeds; readOk: its stream reads to the end.        *)
(* data is the entry's content, tagged by what it holds.                   *)
(***************************************************************************)
Entry(name, data) == [Name |-> name, openOk |-> TRUE, readOk |-> TRUE, data |-> data]
NoOpen(e) == [e EXCEPT !.openOk = FALSE]
NoRead(e) == [e EXCEPT !.readOk = FALSE]

\* type Container
ContainerData(fullPath) == [kind |-> "container", FullPath |-> fullPath]
\* type Metadata
NoMetadata == [Identifier |-> <<>>, Title |-> <<>>, Language |-> <<>>,
               Creator |-> <<>>, Publisher |-> <<>>, Date |-> <<>>,
               Rights |-> <<>>, Series |-> <<>>, SeriesID |-> <<>>,
               Number |-> <<>>]
\* type Package
PackageData(md, items, itemrefs) ==
  [kind |-> "opf", Metadata |-> md, Items |-> items, Itemrefs |-> itemrefs]
Item(id, href) == [ID |-> id, Href |-> href]
\* html.Node
Element(tag, attr, kids) == [Type |-> "element", Data |-> tag, Attr |-> attr, kids |-> kids]
Text(t) == [Type |-> "text", Data |-> t, Attr |-> <<>>, kids |-> <<>>]
Attribute(k, v) == [Key |-> k, Val |-> v]
PageData(root) == [kind |-> "xhtml", root |-> root]
ImageData(bytes) == [kind |-> "image", bytes |-> bytes]
Garbage == [kind |-> "garbage"]


(***************************************************************************)
(* Metadata mapping                                                        *)
(***************************************************************************)
\* getFirst
getFirst(items) == IF Len(items) > 0 THEN items[1] ELSE <<>>

\* mutant: the last code point of each range is left out
containsJapaneseOpenRanges(s) ==
  \E i \in 1..Len(s) :
    \/ (s[i] >= 12352 /\ s[i] < 12447)
    \/ (s[i] >= 12448 /\ s[i] < 12543)
    \/ (s[i] >= 19968 /\ s[i] < 40895)

\* containsJapanese: Hiragana, Katakana, Kanji ranges
containsJapanese(s) ==
  \E i \in 1..Len(s) :
    \/ (s[i] >= 12352 /\ s[i] <= 12447)
    \/ (s[i] >= 12448 /\ s[i] <= 12543)
    \/ (s[i] >= 19968 /\ s[i] <= 40895)

\* hasMetadata
hasMetadata(metadata) ==
  \/ Len(metadata.Title) > 0
  \/ Len(metadata.Creator) > 0
  \/ Len(metadata.Publisher) > 0
  \/ Len(metadata.Series) > 0
  \/ Len(metadata.Date) > 0
  \/ Len(metadata.Language) > 0
  \/ Len(metadata.Identifier) > 0
  \/ Len(metadata.Number) > 0

IsDigitCP(cp) == cp >= 48 /\ cp <= 57
RECURSIVE DigitsValue(_)
DigitsValue(ds) == IF ds = <<>> THEN 0
                   ELSE 10 * DigitsValue(SubSeq(ds, 1, Len(ds) - 1)) + (ds[Len(ds)] - 48)
\* strconv.Atoi on ASCII text: [ok, value]
Atoi(t) ==
  LET signed == t # <<>> /\ (t[1] = 43 \/ t[1] = 45)
      ds == IF signed THEN Tail(t) ELSE t
  IN  IF ds # <<>> /\ \A i \in 1..Len(ds) : IsDigitCP(ds[i])
      THEN [ok |-> TRUE,
            value |-> IF signed /\ t[1] = 45 THEN 0 - DigitsValue(ds) ELSE DigitsValue(ds)]
      ELSE [ok |-> FALSE, value |-> 0]

\* createComicInfo (dates are ASCII in the model, so bytes and code points agree)
createComicInfo(metadata) ==
  LET series == getFirst(metadata.Series)
      creator == getFirst(metadata.Creator)
      dateStr == getFirst(metadata.Date)
      year == IF Len(metadata.Date) > 0 /\ Len(dateStr) >= 4
                 /\ Atoi(SubSeq(dateStr, 1, 4)).ok
              THEN Atoi(SubSeq(dateStr, 1, 4)).value ELSE 0
  IN  [Title |-> getFirst(metadata.Title),
       Series |-> series,
       Number |-> getFirst(metadata.Number),
       Publisher |-> getFirst(metadata.Publisher),
       LanguageISO |-> getFirst(metadata.Language),
       Notes |-> "Generated from EPUB metadata",
       Year |-> year,
       Manga |-> IF series # <<>>
                 THEN (IF containsJapanese(series) THEN "Yes" ELSE "No")
                 ELSE "Unknown",
       Writer |-> creator,
       Penciller |-> creator,
       BlackAndWhite |-> "Unknown",
       AgeRating |-> "Unknown"]

ComicInfoData(metadata) == [kind |-> "comicinfo", info |-> createComicInfo(metadata)]

(***************************************************************************)
(* Archive access and decoding                                             *)
(***************************************************************************)
\* index of the first entry named name, 0 when there is none
FirstNamed(File, name) ==
  IF \E i \in 1..Len(File) : File[i].Name = name
  THEN CHOOSE i \in 1..Len(File) :
         /\ File[i].Name = name
         /\ \A j \in 1..(i - 1) : File[j].Name # name
  ELSE 0

\* the nil reader returned with an error
File0 == [Name |-> <<>>, openOk |-> FALSE, readOk |-> FALSE, data |-> Garbage]

\* mutant: entries are matched by base name
findAndOpenFileByBase(File, fileName) ==
  IF \E i \in 1..Len(File) : Base(File[i].Name) = Base(fileName) /\ File[i].openOk
  THEN [err |-> "nil",
        entry |-> File[CHOOSE i \in 1..Len(File) :
                         /\ Base(File[i].Name) = Base(fileName) /\ File[i].openOk
                         /\ \A j \in 1..(i - 1) :
                              ~(Base(File[j].Name) = Base(fileName) /\ File[j].openOk)]]
  ELSE [err |-> "file not found in archive", entry |-> File0]

\* findAndOpenFile: [err, entry]
findAndOpenFile(File, fileName) ==
  LET i == FirstNamed(File, fileName)
  IN  IF i = 0 THEN [err |-> "file not found in archive", entry |-> File0]
      ELSE IF ~File[i].openOk THEN [err |-> "open", entry |-> File0]
      ELSE [err |-> "nil", entry |-> File[i]]

\* xml.NewDecoder(containerFile).Decode(&container): [ok, FullPath]
\* well-formed XML of another kind decodes to the zero Container
DecodeContainer(e) ==
  IF ~e.readOk THEN [ok |-> FALSE, FullPath |-> <<>>]
  ELSE IF e.data.kind = "container" THEN [ok |-> TRUE, FullPath |-> e.data.FullPath]
  ELSE IF e.data.kind \in {"opf", "xhtml"} THEN [ok |-> TRUE, FullPath |-> <<>>]
  ELSE [ok |-> FALSE, FullPath |-> <<>>]

\* xml.NewDecoder(opfFile).Decode(&pkg): [ok, pkg]
DecodePackage(e) ==
  IF ~e.readOk THEN [ok |-> FALSE, pkg |-> PackageData(NoMetadata, <<>>, <<>>)]
  ELSE IF e.data.kind = "opf" THEN [ok |-> TRUE, pkg |-> e.data]
  ELSE IF e.data.kind \in {"container", "xhtml"}
       THEN [ok |-> TRUE, pkg |-> PackageData(NoMetadata, <<>>, <<>>)]
  ELSE [ok |-> FALSE, pkg |-> PackageData(NoMetadata, <<>>, <<>>)]

\* html.Parse: the tree of a page document; other content has no elements
ParseHTML(data) == IF data.kind = "xhtml" THEN data.root
                   ELSE Element("html", <<>>, <<>>)

\* pageMap[item.ID] = item.Href over the manifest: the last item of an id wins
pageMapHas(items, id) == \E i \in 1..Len(items) : items[i].ID = id
pageMapGet(items, id) ==
  items[CHOOSE i \in 1..Len(items) :
          /\ items[i].ID = id
          /\ \A j \in (i + 1)..Len(items) : items[j].ID # id].Href

\* mutant: a reference is taken from the archive root
ResolvePathFromRoot(base, ref) == TrimPrefix(ToSlash(Clean(ref)), <<"/">>)

\* the resolved path of a reference found in the document at base
ResolvePath(base, ref) ==
  CHOOSE r \in {TrimPrefix(path, <<"/">>) : path \in {ToSlash(Join(Dir(base), ref))}} : TRUE

RECURSIVE SpinePagesKeepDangling(_, _, _)
\* mutant: the map's zero value is used for an idref the manifest lacks
SpinePagesKeepDangling(itemrefs, items, volOPF) ==
  IF itemrefs = <<>> THEN <<>>
  ELSE LET ref == Head(itemrefs)
           href == IF pageMapHas(items, ref) THEN pageMapGet(items, ref) ELSE <<>>
       IN  <<ResolvePath(volOPF, href)>>
             \o SpinePagesKeepDangling(Tail(itemrefs), items, volOPF)

RECURSIVE SpinePages(_, _, _)
\* the loop over pkg.Spine.Itemrefs: the pages of the idrefs the manifest has
SpinePages(itemrefs, items, volOPF) ==
  CHOOSE r \in
    {IF refs = <<>> THEN <<>>
     ELSE LET ref == Head(refs)
              rest == SpinePages(Tail(refs), its, volOPF)
          IN  IF pageMapHas(its, ref)
              THEN <<ResolvePath(volOPF, pageMapGet(its, ref))>> \o rest
              ELSE rest :
     refs \in {itemrefs}, its \in {items}} : TRUE

(***************************************************************************)
(* Page image extraction                                                   *)
(***************************************************************************)
\* mutant: an empty src attribute is passed over
ImgSrcsNonEmpty(n, pageHref) ==
  IF n.Type = "element" /\ n.Data = "img"
     /\ \E i \in 1..Len(n.Attr) : n.Attr[i].Key = "src" /\ n.Attr[i].Val # <<>>
  THEN LET i == CHOOSE k \in 1..Len(n.Attr) :
                  /\ n.Attr[k].Key = "src" /\ n.Attr[k].Val # <<>>
                  /\ \A j \in 1..(k - 1) : ~(n.Attr[j].Key = "src" /\ n.Attr[j].Val # <<>>)
       IN  <<ResolvePath(pageHref, n.Attr[i].Val)>>
  ELSE <<>>

\* the img branch of f: the first src attribute of the node appends one path
ImgSrcs(n, pageHref) ==
  IF n.Type = "element" /\ n.Data = "img"
     /\ \E i \in 1..Len(n.Attr) : n.Attr[i].Key = "src"
  THEN LET i == CHOOSE k \in 1..Len(n.Attr) :
                  /\ n.Attr[k].Key = "src"
                  /\ \A j \in 1..(k - 1) : n.Attr[j].Key # "src"
       IN  <<ResolvePath(pageHref, n.Attr[i].Val)>>
  ELSE <<>>

RECURSIVE WalkNode(_, _)
RECURSIVE WalkKids(_, _)
\* f(n): the node itself, then its children in order
WalkNode(n, pageHref) ==
  CHOOSE r \in {ImgSrcs(node, pageHref) \o WalkKids(node.kids, pageHref) :
                node \in {n}} : TRUE
WalkKids(kids, pageHref) ==
  CHOOSE r \in {IF cs = <<>> THEN <<>>
                ELSE WalkNode(Head(cs), pageHref) \o WalkKids(Tail(cs), pageHref) :
                cs \in {kids}} : TRUE

\* mutant: only the first image of a page document is taken
extractFirstImageOnly(data, pageHref, srcs) ==
  LET found == WalkNode(ParseHTML(data), pageHref)
  IN  srcs \o (IF found = <<>> THEN <<>> ELSE <<found[1]>>)

\* mutant: the images of a page are put before those of the earlier pages
extractImagesInFront(data, pageHref, srcs) == WalkNode(ParseHTML(data), pageHref) \o srcs

\* extractImagesFromXHTML
extractImagesFromXHTML(data, pageHref, srcs) == srcs \o WalkNode(ParseHTML(data), pageHref)

RECURSIVE ScanForPage(_, _, _, _)
\* the inner loop over zipReader.File for one pageHref, from entry i on:
\* an entry that fails to open or to read is passed over (continue),
\* the first that reads is extracted (break)
ScanForPage(File, i, pageHref, srcs) ==
  IF i > Len(File) THEN srcs
  ELSE IF File[i].Name = pageHref /\ File[i].openOk /\ File[i].readOk
       THEN extractImagesFromXHTML(File[i].data, pageHref, srcs)
       ELSE ScanForPage(File, i + 1, pageHref, srcs)

(***************************************************************************)
(* Archive assembly                                                        *)
(***************************************************************************)
\* mutant: the width is that of the largest index, not of the total
normalizeImageNameByMaxIndex(originalName, index, totalFiles) ==
  PagePrefix \o SprintfPad(Len(Itoa(totalFiles - 1)), index) \o Ext(originalName)

\* mutant: the name is made of the extension alone
normalizeImageNameWithoutIndex(originalName, index, totalFiles) ==
  PagePrefix \o Ext(originalName)

\* normalizeImageName
normalizeImageName(originalName, index, totalFiles) ==
  LET ext == Ext(originalName)
      totalDigits == Len(Itoa(totalFiles))
  IN  PagePrefix \o SprintfPad(totalDigits, index) \o ext

\* zipw.Create succeeds while the writer has not failed: budget is the number
\* of entries the output can take, -1 for no limit
CanCreate(out, budget) == budget < 0 \/ Len(out) < budget

\* addImageToZip: the output entries after the call
addImageToZip(out, budget, File, imgPath, imageIndex, total) ==
  LET i == FirstNamed(File, imgPath)
  IN  IF i = 0 THEN out
      ELSE IF ~File[i].openOk THEN out
      ELSE IF ~CanCreate(out, budget) THEN out
      ELSE Append(out,
             Entry(Base(normalizeImageName(imgPath, imageIndex, total)),
                   IF File[i].readOk THEN File[i].data ELSE Garbage))


(***************************************************************************)
(* Input archives of the model                                             *)
(***************************************************************************)
\* package document O/v, pages O/t/1..3, images O/i/a.j, O/t/b.P, O/i/c
OpfPath == <<"O", "/", "v">>
Href1 == <<"t", "/", "1">>
Href2 == <<"t", "/", "2">>
Href3 == <<"t", "/", "3">>
Page1 == <<"O", "/", "t", "/", "1">>
Page2 == <<"O", "/", "t", "/", "2">>
Page3 == <<"O", "/", "t", "/", "3">>
SrcA == <<".", ".", "/", "i", "/", "a", ".", "j">>
SrcB == <<"b", ".", "P">>
SrcC == <<".", ".", "/", "i", "/", "c">>
SrcM == <<"m", ".", "j">>
ImgA == <<"O", "/", "i", "/", "a", ".", "j">>
ImgB == <<"O", "/", "t", "/", "b", ".", "P">>
ImgC == <<"O", "/", "i", "/", "c">>

Img(attr) == Element("img", attr, <<>>)
Src(v) == Attribute("src", v)
Body(kids) == Element("html", <<>>, <<Element("head", <<>>, <<>>), Element("body", <<>>, kids)>>)
\* one image in a div
DocOne(src) == Body(<<Element("div", <<>>, <<Img(<<Src(src)>>)>>)>>)
\* two images at different depths, text between them
DocTwo(s1, s2) == Body(<<Img(<<Src(s1)>>), Text("t"),
                         Element("div", <<>>, <<Element("p", <<>>, <<Img(<<Src(s2)>>)>>)>>)>>)
DocNone == Body(<<Element("p", <<>>, <<Text("t")>>)>>)
DocNoSrc == Body(<<Img(<<Attribute("alt", <<"x">>)>>)>>)
DocEmptySrc == Body(<<Img(<<Src(<<>>)>>)>>)
DocAltFirst(src) == Body(<<Img(<<Attribute("alt", <<"x">>), Src(src), Src(SrcM)>>)>>)

Ids == {"p1", "p2", "p3", "px"}
Manifest == <<Item("p1", Href3), Item("p2", Href2), Item("p3", Href3), Item("p1", Href1)>>

Images == <<Entry(ImgA, ImageData("A")), Entry(ImgB, ImageData("B")),
            Entry(ImgC, ImageData("C"))>>

Variants == {"base", "faulty", "odd", "bare"}
\* the page and image entries of each variant
PageEntries(variant) ==
  CASE variant = "base" ->
         <<Entry(Page1, PageData(DocOne(SrcA))),
           Entry(Page2, PageData(DocTwo(SrcB, SrcA))),
           Entry(Page3, PageData(DocNone))>> \o Images
    [] variant = "faulty" ->
         <<NoOpen(Entry(Page1, PageData(DocOne(SrcA)))),
           NoRead(Entry(Page2, PageData(DocOne(SrcB)))),
           NoRead(Entry(Page1, PageData(DocOne(SrcB)))),
           Entry(Page1, PageData(DocOne(SrcC))),
           Entry(Page3, PageData(DocOne(SrcM)))>> \o Images
    [] variant = "odd" ->
         <<Entry(Page1, PageData(DocAltFirst(SrcC))),
           Entry(Page2, PageData(DocNoSrc)),
           Entry(Page3, PageData(DocEmptySrc))>> \o Images
    [] variant = "bare" ->
         <<Entry(Page1, PageData(DocOne(SrcA))),
           Entry(Page3, PageData(DocOne(SrcB))),
           NoOpen(Entry(ImgA, ImageData("X"))),
           NoRead(Entry(ImgB, ImageData("Y")))>> \o Images

\* a well-formed archive
Archive(variant, md, spine) ==
  <<Entry(ContainerXML, ContainerData(OpfPath)),
    Entry(OpfPath, PackageData(md, Manifest, spine))>> \o PageEntries(variant)

\* an archive whose package document is named /v, at the root
RootedArchive ==
  <<Entry(ContainerXML, ContainerData(<<"/", "v">>)),
    Entry(<<"/", "v">>, PackageData(NoMetadata, Manifest, <<"p1">>)),
    Entry(Href1, PageData(DocOne(SrcA))),
    Entry(<<"i", "/", "a", ".", "j">>, ImageData("A"))>>

Spines == UNION {[1..n -> Ids] : n \in 0..MaxSpine}
Repeat(id, n) == [i \in 1..n |-> id]
LongSpines == {Repeat("p1", 5), Repeat("p1", 9), Repeat("p1", 10), Repeat("p1", 11),
               Repeat("p2", 5), Repeat("p2", 6)}

\* text as code points
TextA == <<65>>
TextJa == <<36914, 25731, 12398>>
TextKana == <<65, 12450>>
TextDate == <<50, 48, 50, 49, 45, 48, 53>>
Metadatas ==
  {NoMetadata,
   [NoMetadata EXCEPT !.Title = <<TextA>>],
   [NoMetadata EXCEPT !.Title = <<<<>>>>],
   [NoMetadata EXCEPT !.Rights = <<TextA>>, !.SeriesID = <<TextA>>],
   [NoMetadata EXCEPT !.Identifier = <<TextA>>],
   [NoMetadata EXCEPT !.Title = <<TextJa>>, !.Creator = <<TextA, TextJa>>],
   [NoMetadata EXCEPT !.Series = <<TextJa>>, !.Date = <<TextDate>>, !.Number = <<TextA>>],
   [NoMetadata EXCEPT !.Series = <<TextA, TextJa>>, !.Publisher = <<TextA>>],
   [NoMetadata EXCEPT !.Series = <<TextKana>>, !.Language = <<TextA>>],
   [NoMetadata EXCEPT !.Series = <<<<>>>>, !.Date = <<TextA>>]}

\* series of one code point, at the ends of the ranges of containsJapanese
EdgeCodePoints == {12351, 12352, 12447, 12448, 12543, 12544, 19967, 19968, 40895, 40896}
SeriesEdges ==
  {[NoMetadata EXCEPT !.Series = <<<<cp>>>>] : cp \in EdgeCodePoints}
    \cup {[NoMetadata EXCEPT !.Series = <<<<>>, TextJa>>, !.Title = <<TextJa>>]}

\* archives whose structure is broken
BrokenArchives ==
  LET opf == Entry(OpfPath, PackageData(NoMetadata, Manifest, <<"p1">>))
      rest == PageEntries("base")
  IN  {\* no container descriptor at all
       <<opf>> \o rest,
       \* a descriptor under another name
       <<Entry(<<"c", "o", "n", "t", "a", "i", "n", "e", "r", ".", "x", "m", "l">>,
               ContainerData(OpfPath)), opf>> \o rest,
       <<Entry(ToLower(ContainerXML), ContainerData(OpfPath)), opf>> \o rest,
       \* a descriptor that cannot be opened, or decoded
       <<NoOpen(Entry(ContainerXML, ContainerData(OpfPath))), opf>> \o rest,
       <<NoRead(Entry(ContainerXML, ContainerData(OpfPath))), opf>> \o rest,
       <<Entry(ContainerXML, Garbage), opf>> \o rest,
       \* a descriptor without a package path
       <<Entry(ContainerXML, ContainerData(<<>>)), opf>> \o rest,
       <<Entry(ContainerXML, ContainerData(<<>>)), Entry(<<>>, opf.data)>> \o rest,
       <<Entry(ContainerXML, opf.data), opf>> \o rest,
       \* a package path that names no entry, or no package document
       <<Entry(ContainerXML, ContainerData(OpfPath))>> \o rest,
       <<Entry(ContainerXML, ContainerData(OpfPath)), NoOpen(opf)>> \o rest,
       <<Entry(ContainerXML, ContainerData(OpfPath)), Entry(OpfPath, Garbage)>> \o rest,
       <<Entry(ContainerXML, ContainerData(Page1))>> \o rest,
       \* a package document without manifest
       <<Entry(ContainerXML, ContainerData(OpfPath)),
         Entry(OpfPath, PackageData(NoMetadata, <<>>, <<"p1", "p2">>))>> \o rest}


(***************************************************************************)
(* Host file system and arguments                                          *)
(***************************************************************************)
\* a file of the host: a zip archive with its entries, or other bytes
ZipFile(File) == [zip |-> TRUE, File |-> File]
OtherFile == [zip |-> FALSE, File |-> <<>>]
\* what an earlier, unrelated write left at the output path
StaleFile == ZipFile(<<Entry(<<"o", "l", "d">>, ImageData("old"))>>)

AEpub == <<"a", ".", "e", "p", "u", "b">>
AUpper == <<"a", ".", "E", "P", "U", "B">>
ATxt == <<"a", ".", "t", "x", "t">>
NoExt == <<"e", "p", "u", "b">>
OCbz == <<"o", ".", "c", "b", "z">>

\* the environment of one conversion: whether os.Create succeeds, how many
\* entries the output takes before the zip writer fails (-1: no limit), and
\* whether xml.MarshalIndent succeeds
Env(createOk, budget) == [createOk |-> createOk, writeBudget |-> budget, marshalOk |-> TRUE]
OkEnv == Env(TRUE, -1)
NoMarshalEnv == [OkEnv EXCEPT !.marshalOk = FALSE]

Input(path, present, file, env) ==
  [epubPath |-> path, present |-> present, file |-> file, env |-> env]
\* the command line's output argument, and whether the output path holds a
\* file before the program runs
Outputs == [outputArg : {<<>>, OCbz}, stale : BOOLEAN]
DefaultFresh == [outputArg |-> <<>>, stale |-> FALSE]
With(in, o) == [epubPath |-> in.epubPath, present |-> in.present, file |-> in.file,
                env |-> in.env, outputArg |-> o.outputArg, stale |-> o.stale]

\* the inputs of a single conversion
SingleInputs ==
  {With(Input(AEpub, TRUE, ZipFile(Archive(v, NoMetadata, sp)), OkEnv), DefaultFresh) :
     v \in Variants, sp \in Spines \cup LongSpines}
  \cup {With(Input(AEpub, TRUE, ZipFile(Archive(v, NoMetadata, sp)), OkEnv), o) :
          v \in Variants, sp \in {<<"p1", "px", "p1">>, <<"p2", "p3">>}, o \in Outputs}
  \cup {With(Input(AEpub, TRUE, ZipFile(Archive("base", md, sp)), Env(TRUE, b)), o) :
          md \in Metadatas, sp \in {<<"p1">>, <<"p2", "p1">>, <<"px">>}, b \in -1..2,
          o \in Outputs}
  \cup {With(Input(AEpub, TRUE, ZipFile(Archive("base", md, <<"p1">>)), NoMarshalEnv), o) :
          md \in Metadatas, o \in Outputs}
  \cup {With(Input(AEpub, TRUE, ZipFile(a), OkEnv), o) : a \in BrokenArchives, o \in Outputs}
  \cup {With(Input(AEpub, TRUE, ZipFile(RootedArchive), OkEnv), DefaultFresh)}
  \cup {With(Input(AEpub, TRUE, ZipFile(Archive("base", md, <<"p1">>)), OkEnv), DefaultFresh) :
          md \in SeriesEdges}
  \cup {With(Input(AEpub, TRUE, ZipFile(Archive("base", md, <<"p1">>)), Env(FALSE, -1)), o) :
          md \in Metadatas, o \in Outputs}
  \cup {With(Input(path, TRUE, ZipFile(Archive("base", NoMetadata, <<"p1">>)), OkEnv), o) :
          path \in {AUpper, ATxt, NoExt}, o \in Outputs}
  \cup {With(Input(AEpub, present, OtherFile, OkEnv), o) :
          present \in BOOLEAN, o \in Outputs}

Conv == 1..MaxFiles

VARIABLES
  disk,         \* host path -> file, for the paths that exist
  env,          \* conversion -> environment of its output
  epubPath,     \* conversion -> processFile's epubPath
  outputArg,    \* conversion -> the outputPath processFile is called with
  outputPath,   \* conversion -> processFile's outputPath variable
  pc,           \* conversion -> position in processFile
  ret,          \* conversion -> "none", "nil" or the error returned
  zipReader,    \* conversion -> zipReader.File
  volOPFPath,   \* conversion -> volOPFPath
  metadata,     \* conversion -> metadata
  pages,        \* conversion -> pages
  pageIdx,      \* conversion -> pages already read
  imgSrcs,      \* conversion -> imgSrcs
  imageIndex,   \* conversion -> imageIndex
  runs,         \* invocations of processFile started (single conversion)
  firstRun,     \* outcome and output of the first invocation, once it returned
  batch,        \* processDirectory's arguments and the directory's listing
  epubFiles,    \* epubFiles
  loopIdx,      \* files the loop of processDirectory has started
  semaphore,    \* number of values in the semaphore channel
  wg,           \* counter of the WaitGroup
  maxConcurrency,
  mainPc,       \* position of main / processDirectory
  gpc           \* file -> position of its goroutine

convVars == <<env, epubPath, outputArg, outputPath, pc, ret, zipReader, volOPFPath,
              metadata, pages, pageIdx, imgSrcs, imageIndex>>
histVars == <<runs, firstRun>>
batchVars == <<batch, epubFiles, loopIdx, semaphore, wg, maxConcurrency, mainPc, gpc>>
vars == <<disk, convVars, histVars, batchVars>>

FileAt(d, path) == IF path \in DOMAIN d THEN d[path] ELSE OtherFile
Exists(d, path) == path \in DOMAIN d
WriteFile(d, path, file) == (path :> file) @@ d

\* the output path processFile uses for its arguments
DefaultOutput(path) == SubSeq(path, 1, Len(path) - Len(EpubExt)) \o CbzExt
OutputOf(c) == IF outputArg[c] = <<>> THEN DefaultOutput(epubPath[c]) ELSE outputArg[c]

(***************************************************************************)
(* processFile, one action per stage; c is the conversion                  *)
(***************************************************************************)
Goto(c, label) == /\ pc' = [pc EXCEPT ![c] = label]
                  /\ UNCHANGED ret
\* return e
Return(c, e) == /\ pc' = [pc EXCEPT ![c] = "returned"]
                /\ ret' = [ret EXCEPT ![c] = e]

\* mutant: the extension is not checked
BadExtensionNever(path) == FALSE

\* filepath.Ext(epubPath) != ".epub"
BadExtension(path) == Ext(path) # EpubExt

\* validate the input name and derive the output path
Validate(c) ==
  /\ pc[c] = "validate"
  /\ IF BadExtension(epubPath[c])
     THEN /\ Return(c, "input file must have .epub extension")
          /\ UNCHANGED outputPath
     ELSE /\ outputPath' = [outputPath EXCEPT ![c] =
                              IF @ = <<>> THEN DefaultOutput(epubPath[c]) ELSE @]
          /\ Goto(c, "open")
  /\ UNCHANGED <<disk, env, epubPath, outputArg, zipReader, volOPFPath, metadata,
                 pages, pageIdx, imgSrcs, imageIndex, histVars, batchVars>>

\* zip.OpenReader(epubPath)
OpenReader(c) ==
  /\ pc[c] = "open"
  /\ IF Exists(disk, epubPath[c]) /\ disk[epubPath[c]].zip
     THEN /\ zipReader' = [zipReader EXCEPT ![c] = disk[epubPath[c]].File]
          /\ Goto(c, "container")
     ELSE /\ Return(c, "error opening EPUB file")
          /\ UNCHANGED zipReader
  /\ UNCHANGED <<disk, env, epubPath, outputArg, outputPath, volOPFPath, metadata,
                 pages, pageIdx, imgSrcs, imageIndex, histVars, batchVars>>

\* 1. find the package document through META-INF/container.xml
ResolveContainer(c) ==
  /\ pc[c] = "container"
  /\ LET containerFile == findAndOpenFile(zipReader[c], ContainerXML)
         container == DecodeContainer(containerFile.entry)
     IN  IF containerFile.err # "nil"
         THEN /\ Return(c, "error finding container.xml")
              /\ UNCHANGED volOPFPath
         ELSE IF ~container.ok
         THEN /\ Return(c, "error decoding container.xml")
              /\ UNCHANGED volOPFPath
         ELSE /\ volOPFPath' = [volOPFPath EXCEPT ![c] = container.FullPath]
              /\ IF container.FullPath = <<>>
                 THEN Return(c, "vol.opf file not found in container")
                 ELSE Goto(c, "opf")
  /\ UNCHANGED <<disk, env, epubPath, outputArg, outputPath, zipReader, metadata,
                 pages, pageIdx, imgSrcs, imageIndex, histVars, batchVars>>

\* mutant: the empty spine is not checked
NoPagesNever(ps) == FALSE

\* len(pages) == 0
NoPages(ps) == Len(ps) = 0

\* 2. read the package document: metadata, and the pages of the spine
ReadPackage(c) ==
  /\ pc[c] = "opf"
  /\ LET opfFile == findAndOpenFile(zipReader[c], volOPFPath[c])
         decoded == DecodePackage(opfFile.entry)
         pkg == decoded.pkg
         ps == SpinePages(pkg.Itemrefs, pkg.Items, volOPFPath[c])
     IN  IF opfFile.err # "nil"
         THEN /\ Return(c, "error finding vol.opf")
              /\ UNCHANGED <<metadata, pages>>
         ELSE IF ~decoded.ok
         THEN /\ Return(c, "error decoding vol.opf")
              /\ UNCHANGED <<metadata, pages>>
         ELSE /\ metadata' = [metadata EXCEPT ![c] = pkg.Metadata]
              /\ pages' = [pages EXCEPT ![c] = ps]
              /\ IF NoPages(ps)
                 THEN Return(c, "no pages found in spine")
                 ELSE Goto(c, "create")
  /\ UNCHANGED <<disk, env, epubPath, outputArg, outputPath, zipReader, volOPFPath,
                 pageIdx, imgSrcs, imageIndex, histVars, batchVars>>

\* mutant: the output is opened without truncation
CreatedKeepsContent(old) == IF old.zip THEN old ELSE ZipFile(<<>>)

\* os.Create: the file as it is after the call (created, or truncated)
Created(old) == ZipFile(<<>>)

\* 3. os.Create(outputPath) and zip.NewWriter
CreateOutput(c) ==
  /\ pc[c] = "create"
  /\ IF env[c].createOk
     THEN /\ disk' = WriteFile(disk, outputPath[c], Created(FileAt(disk, outputPath[c])))
          /\ Goto(c, "pages")
     ELSE /\ Return(c, "error creating ZIP file")
          /\ UNCHANGED disk
  /\ UNCHANGED <<env, epubPath, outputArg, outputPath, zipReader, volOPFPath, metadata,
                 pages, pageIdx, imgSrcs, imageIndex, histVars, batchVars>>

\* one iteration of the loop over pages
ReadPage(c) ==
  /\ pc[c] = "pages"
  /\ pageIdx[c] < Len(pages[c])
  /\ LET pageHref == pages[c][pageIdx[c] + 1]
         srcs == ScanForPage(zipReader[c], 1, pageHref, imgSrcs[c])
         last == pageIdx[c] + 1 = Len(pages[c])
     IN  /\ imgSrcs' = [imgSrcs EXCEPT ![c] = srcs]
         /\ pageIdx' = [pageIdx EXCEPT ![c] = @ + 1]
         /\ Goto(c, IF ~last THEN "pages"
                    ELSE IF srcs = <<>> THEN "comicinfo" ELSE "images")
  /\ UNCHANGED <<disk, env, epubPath, outputArg, outputPath, zipReader, volOPFPath,
                 metadata, pages, imageIndex, histVars, batchVars>>

\* one iteration of the loop over imgSrcs
AddImage(c) ==
  /\ pc[c] = "images"
  /\ imageIndex[c] < Len(imgSrcs[c])
  /\ LET src == imgSrcs[c][imageIndex[c] + 1]
         out == disk[outputPath[c]].File
     IN  disk' = WriteFile(disk, outputPath[c],
                   ZipFile(addImageToZip(out, env[c].writeBudget, zipReader[c], src,
                                         imageIndex[c], Len(imgSrcs[c]))))
  /\ imageIndex' = [imageIndex EXCEPT ![c] = @ + 1]
  /\ Goto(c, IF imageIndex[c] + 1 = Len(imgSrcs[c]) THEN "comicinfo" ELSE "images")
  /\ UNCHANGED <<env, epubPath, outputArg, outputPath, zipReader, volOPFPath, metadata,
                 pages, pageIdx, imgSrcs, histVars, batchVars>>

\* mutant: an error of the metadata entry is returned
WriteComicInfoOrFail(c) ==
  /\ pc[c] = "comicinfo"
  /\ LET out == disk[outputPath[c]].File
         ok == env[c].marshalOk /\ CanCreate(out, env[c].writeBudget)
     IN  /\ IF hasMetadata(metadata[c]) /\ ok
            THEN disk' = WriteFile(disk, outputPath[c],
                           ZipFile(Append(out, Entry(ComicInfoXML, ComicInfoData(metadata[c])))))
            ELSE UNCHANGED disk
         /\ Return(c, IF hasMetadata(metadata[c]) /\ ~ok THEN "error writing ComicInfo.xml"
                      ELSE "nil")
  /\ UNCHANGED <<env, epubPath, outputArg, outputPath, zipReader, volOPFPath, metadata,
                 pages, pageIdx, imgSrcs, imageIndex, histVars, batchVars>>

\* the ComicInfo.xml entry, when there is metadata and it is serialized and
\* the writer takes it; then return nil
WriteComicInfo(c) ==
  /\ pc[c] = "comicinfo"
  /\ LET out == disk[outputPath[c]].File
     IN  IF hasMetadata(metadata[c]) /\ env[c].marshalOk /\ CanCreate(out, env[c].writeBudget)
         THEN disk' = WriteFile(disk, outputPath[c],
                        ZipFile(Append(out, Entry(ComicInfoXML, ComicInfoData(metadata[c])))))
         ELSE UNCHANGED disk
  /\ Return(c, "nil")
  /\ UNCHANGED <<env, epubPath, outputArg, outputPath, zipReader, volOPFPath, metadata,
                 pages, pageIdx, imgSrcs, imageIndex, histVars, batchVars>>

ProcessFileStep(c) ==
  \/ Validate(c)
  \/ OpenReader(c)
  \/ ResolveContainer(c)
  \/ ReadPackage(c)
  \/ CreateOutput(c)
  \/ ReadPage(c)
  \/ AddImage(c)
  \/ WriteComicInfo(c)

(***************************************************************************)
(* A single conversion: main calls processFile(sourcePath, outputPath);    *)
(* the program may then be run again on the same arguments.                *)
(***************************************************************************)
IdleConv == [c \in Conv |-> "idle"]
EmptySeqs == [c \in Conv |-> <<>>]
Zeroes == [c \in Conv |-> 0]
NoBatch == [sourceDir |-> <<>>, outputDir |-> <<>>, recursive |-> FALSE,
            listing |-> <<>>, readOk |-> TRUE, mkdirOk |-> TRUE]

\* the locals of processFile at its entry
Entry0(c) ==
  /\ pc' = [pc EXCEPT ![c] = "validate"]
  /\ ret' = [ret EXCEPT ![c] = "none"]
  /\ outputPath' = [outputPath EXCEPT ![c] = outputArg[c]]
  /\ zipReader' = [zipReader EXCEPT ![c] = <<>>]
  /\ volOPFPath' = [volOPFPath EXCEPT ![c] = <<>>]
  /\ metadata' = [metadata EXCEPT ![c] = NoMetadata]
  /\ pages' = [pages EXCEPT ![c] = <<>>]
  /\ pageIdx' = [pageIdx EXCEPT ![c] = 0]
  /\ imgSrcs' = [imgSrcs EXCEPT ![c] = <<>>]
  /\ imageIndex' = [imageIndex EXCEPT ![c] = 0]

NoRun == [ret |-> "none", exists |-> FALSE, file |-> OtherFile]

Init ==
  \E in \in SingleInputs :
    LET oarg == in.outputArg
        out == IF oarg = <<>> THEN DefaultOutput(in.epubPath) ELSE oarg
        d0 == IF in.present THEN (in.epubPath :> in.file) ELSE <<>>
    IN  /\ disk = IF in.stale THEN WriteFile(d0, out, StaleFile) ELSE d0
        /\ env = [c \in Conv |-> in.env]
        /\ epubPath = [c \in Conv |-> IF c = 1 THEN in.epubPath ELSE <<>>]
        /\ outputArg = [c \in Conv |-> IF c = 1 THEN oarg ELSE <<>>]
        /\ outputPath = [c \in Conv |-> IF c = 1 THEN oarg ELSE <<>>]
        /\ pc = [IdleConv EXCEPT ![1] = "validate"]
        /\ ret = [c \in Conv |-> "none"]
        /\ zipReader = EmptySeqs
        /\ volOPFPath = EmptySeqs
        /\ metadata = [c \in Conv |-> NoMetadata]
        /\ pages = EmptySeqs
        /\ pageIdx = Zeroes
        /\ imgSrcs = EmptySeqs
        /\ imageIndex = Zeroes
        /\ runs = 1
        /\ firstRun = NoRun
        /\ batch = NoBatch
        /\ epubFiles = <<>>
        /\ loopIdx = 0
        /\ semaphore = 0
        /\ wg = 0
        /\ maxConcurrency = 1
        /\ mainPc = "single"
        /\ gpc = IdleConv

\* the same command line again, after the first run has ended
Rerun ==
  /\ mainPc = "single"
  /\ pc[1] = "returned"
  /\ runs < MaxRuns
  /\ runs' = runs + 1
  /\ firstRun' = IF runs = 1
                 THEN [ret |-> ret[1], exists |-> Exists(disk, OutputOf(1)),
                       file |-> FileAt(disk, OutputOf(1))]
                 ELSE firstRun
  /\ Entry0(1)
  /\ UNCHANGED <<disk, env, epubPath, outputArg, batchVars>>

Next == ProcessFileStep(1) \/ Rerun

Spec == Init /\ [][Next]_vars

(***************************************************************************)
(* Batch mode: main calls processDirectory(sourcePath, outputPath,         *)
(* recursive); one goroutine per discovered file, admitted by a buffered   *)
(* channel of capacity runtime.NumCPU() and awaited with a WaitGroup.      *)
(***************************************************************************)
Min(S) == CHOOSE x \in S : \A y \in S : x <= y
Max(S) == CHOOSE x \in S : \A y \in S : x >= y

\* the elements of a cleaned path, none for "." and for the root
PathElems(arg) ==
  CHOOSE r \in {IF p = <<".">> THEN <<>>
                ELSE IF p[1] = Separator
                     THEN IF Len(p) = 1 THEN <<>> ELSE SplitPath(Tail(p))
                     ELSE SplitPath(p) : p \in {arg}} : TRUE

\* filepath.Rel on cleaned paths and their elements
RelClean(cleanBase, cleanTarg) ==
  CHOOSE r \in
    {LET common == Max({k \in 0..Len(be) :
                          k <= Len(te) /\ SubSeq(be, 1, k) = SubSeq(te, 1, k)})
         ups == [k \in 1..(Len(be) - common) |-> <<".", ".">>]
         rest == SubSeq(te, common + 1, Len(te))
     IN  IF (b[1] = Separator) # (t[1] = Separator)
              \/ \E k \in (common + 1)..Len(be) : be[k] = <<".", ".">>
         THEN [err |-> TRUE, path |-> <<>>]
         ELSE [err |-> FALSE,
               path |-> IF ups \o rest = <<>> THEN <<".">> ELSE JoinElems(ups \o rest)] :
     <<b, t, be, te>> \in {<<cleanBase, cleanTarg, PathElems(cleanBase),
                              PathElems(cleanTarg)>>}} : TRUE

\* filepath.Rel(basepath, targpath)
Rel(basepath, targpath) == RelClean(Clean(basepath), Clean(targpath))

SourceDir == <<"s">>
OutDir == <<"o">>

\* an entry of the tree under the source directory: its path relative to
\* the source directory, the file, the environment of its conversion's
\* output, and whether the directory of its output can be made
TreeEntry(name, isDir, file, e, mkdirOk) ==
  [name |-> name, isDir |-> isDir, file |-> file, env |-> e, mkdirOk |-> mkdirOk]
GoodBook == ZipFile(Archive("base", NoMetadata, <<"p1">>))
TwoImageBook == ZipFile(Archive("base", [NoMetadata EXCEPT !.Title = <<TextA>>], <<"p2">>))
NoContainerBook == ZipFile(<<Entry(OpfPath, PackageData(NoMetadata, Manifest, <<"p1">>))>>)
\* the tree in the order filepath.Walk and os.ReadDir list it (lexical)
Tree ==
  <<TreeEntry(<<"a", ".", "e", "p", "u", "b">>, FALSE, GoodBook, OkEnv, TRUE),
    TreeEntry(<<"b", ".", "e", "p", "u", "b">>, FALSE, NoContainerBook, OkEnv, TRUE),
    TreeEntry(<<"c", ".", "E", "P", "U", "B">>, FALSE, GoodBook, OkEnv, TRUE),
    TreeEntry(<<"d", "/", "e", ".", "e", "p", "u", "b">>, FALSE, TwoImageBook, OkEnv, TRUE),
    TreeEntry(<<"g", ".", "e", "p", "u", "b">>, TRUE, OtherFile, OkEnv, TRUE),
    TreeEntry(<<"h", "/", "i", ".", "e", "p", "u", "b">>, FALSE, NoContainerBook, OkEnv, FALSE),
    TreeEntry(<<"n", ".", "t", "x", "t">>, FALSE, OtherFile, OkEnv, TRUE)>>
\* the entries every listing has: the directory g.epub and the file n.txt
Fixed == {5, 7}
Optional == (1..Len(Tree)) \ Fixed

RECURSIVE Pick(_, _, _)
\* the entries of seq at the positions S, from position i on, in order
Pick(seq, S, i) == IF i > Len(seq) THEN <<>>
                   ELSE (IF i \in S THEN <<seq[i]>> ELSE <<>>) \o Pick(seq, S, i + 1)

\* path is below a directory of the listing
InSubdir(name) == LastSep(name) # 0
\* strings.HasSuffix(strings.ToLower(name), ".epub")
IsEpubName(name) == HasSuffix(ToLower(name), EpubExt)

\* the files processDirectory collects into epubFiles
DiscoverFiles(b) ==
  LET walked(e) == ~e.isDir /\ IsEpubName(Join(b.sourceDir, e.name))
      top(e) == ~InSubdir(e.name) /\ ~e.isDir /\ IsEpubName(e.name)
      sel == IF b.recursive THEN SelectSeq(b.listing, walked)
             ELSE SelectSeq(b.listing, top)
  IN  [i \in 1..Len(sel) |-> Join(b.sourceDir, sel[i].name)]

\* the listing's entry of a discovered path
TreeEntryOf(b, path) ==
  b.listing[CHOOSE i \in 1..Len(b.listing) : Join(b.sourceDir, b.listing[i].name) = path]

Batch(outputDir, recursive, listing, readOk, mkdirOk) ==
  [sourceDir |-> SourceDir, outputDir |-> outputDir, recursive |-> recursive,
   listing |-> listing, readOk |-> readOk, mkdirOk |-> mkdirOk]

\* the directories the program is run on: every choice of the optional
\* entries that gives at most MaxFiles conversions
BatchInputs ==
  {b \in {Batch(o, r, Pick(Tree, S \cup Fixed, 1), TRUE, TRUE) :
            o \in {<<>>, OutDir}, r \in BOOLEAN, S \in SUBSET Optional} :
     Len(DiscoverFiles(b)) <= MaxFiles}
  \cup {Batch(o, r, Pick(Tree, {1, 2} \cup Fixed, 1), readOk, mkdirOk) :
          o \in {<<>>, OutDir}, r \in BOOLEAN, readOk \in BOOLEAN, mkdirOk \in BOOLEAN}

\* runtime.NumCPU() is 1, or the largest number of processors taken here
InitBatch ==
  \E b \in BatchInputs, n \in {1, MaxCPU} :
    LET files == DiscoverFiles(b)
    IN  /\ batch = b
        /\ maxConcurrency = n
        /\ disk = [p \in {Join(b.sourceDir, b.listing[i].name) :
                            i \in {j \in 1..Len(b.listing) : ~b.listing[j].isDir}} |->
                     TreeEntryOf(b, p).file]
        /\ env = [c \in Conv |-> IF c <= Len(files) THEN TreeEntryOf(b, files[c]).env
                                 ELSE OkEnv]
        /\ epubPath = EmptySeqs
        /\ outputArg = EmptySeqs
        /\ outputPath = EmptySeqs
        /\ pc = IdleConv
        /\ ret = [c \in Conv |-> "none"]
        /\ zipReader = EmptySeqs
        /\ volOPFPath = EmptySeqs
        /\ metadata = [c \in Conv |-> NoMetadata]
        /\ pages = EmptySeqs
        /\ pageIdx = Zeroes
        /\ imgSrcs = EmptySeqs
        /\ imageIndex = Zeroes
        /\ runs = 1
        /\ firstRun = NoRun
        /\ epubFiles = <<>>
        /\ loopIdx = 0
        /\ semaphore = 0
        /\ wg = 0
        /\ mainPc = "discover"
        /\ gpc = IdleConv

\* the process runs: main has neither returned nor called log.Fatal
Alive == mainPc \notin {"fatal", "returned"}

\* collect the .epub files and make the output directory
Discover ==
  /\ mainPc = "discover"
  /\ IF ~batch.readOk
     THEN mainPc' = "fatal" /\ UNCHANGED epubFiles
     ELSE /\ epubFiles' = DiscoverFiles(batch)
          /\ mainPc' = IF epubFiles' = <<>> THEN "fatal"
                       ELSE IF batch.outputDir # <<>> /\ ~batch.mkdirOk THEN "fatal"
                       ELSE "loop"
  /\ UNCHANGED <<disk, convVars, histVars, batch, loopIdx, semaphore, wg, maxConcurrency, gpc>>

\* for _, epubPath := range epubFiles { wg.Add(1)
LoopAdd ==
  /\ mainPc = "loop"
  /\ loopIdx < Len(epubFiles)
  /\ wg' = wg + 1
  /\ mainPc' = "send"
  /\ UNCHANGED <<disk, convVars, histVars, batch, epubFiles, loopIdx, semaphore,
                 maxConcurrency, gpc>>

\* a send on the buffered channel proceeds when the buffer is not full
SlotFreeAlways(n, capacity) == TRUE
SlotFree(n, capacity) == n < capacity

\* semaphore <- struct{}{}; go func(path string) {...}(epubPath)
LoopSend ==
  /\ mainPc = "send"
  /\ SlotFree(semaphore, maxConcurrency)
  /\ semaphore' = semaphore + 1
  /\ loopIdx' = loopIdx + 1
  /\ gpc' = [gpc EXCEPT ![loopIdx + 1] = "start"]
  /\ epubPath' = [epubPath EXCEPT ![loopIdx + 1] = epubFiles[loopIdx + 1]]
  /\ mainPc' = "loop"
  /\ UNCHANGED <<disk, env, outputArg, outputPath, pc, ret, zipReader, volOPFPath, metadata,
                 pages, pageIdx, imgSrcs, imageIndex, histVars, batch, epubFiles, wg,
                 maxConcurrency>>

\* the range is exhausted
LoopEnd ==
  /\ mainPc = "loop"
  /\ loopIdx = Len(epubFiles)
  /\ mainPc' = "wait"
  /\ UNCHANGED <<disk, convVars, histVars, batch, epubFiles, loopIdx, semaphore, wg,
                 maxConcurrency, gpc>>

\* wg.Wait() returns when the counter is zero
Wait ==
  /\ mainPc = "wait"
  /\ wg = 0
  /\ mainPc' = "returned"
  /\ UNCHANGED <<disk, convVars, histVars, batch, epubFiles, loopIdx, semaphore, wg,
                 maxConcurrency, gpc>>

\* finalOutputPath of the goroutine for path: err is set when filepath.Rel
\* or os.MkdirAll of the output directory structure fails
FinalOutputPath(b, path) ==
  IF b.outputDir = <<>> THEN [err |-> FALSE, path |-> <<>>]
  ELSE IF ~b.recursive
       THEN [err |-> FALSE,
             path |-> Join(b.outputDir, TrimSuffix(Base(path), EpubExt) \o CbzExt)]
  ELSE CHOOSE r \in
         {LET outputDirPath == Join(b.outputDir, Dir(relPath.path))
          IN  IF relPath.err \/ ~TreeEntryOf(b, path).mkdirOk
              THEN [err |-> TRUE, path |-> <<>>]
              ELSE [err |-> FALSE, path |-> Join(outputDirPath, baseName \o CbzExt)] :
          relPath \in {Rel(b.sourceDir, path)},
          baseName \in {TrimSuffix(Base(path), EpubExt)}} : TRUE

\* log.Fatal ends the process; log.Printf leaves main where it is
LogFatal(m) == "fatal"
LogPrintf(m) == m

\* the goroutine up to its call of processFile
GoPrepare(i) ==
  /\ Alive
  /\ gpc[i] = "start"
  /\ LET final == FinalOutputPath(batch, epubPath[i])
     IN  IF final.err
         THEN /\ gpc' = [gpc EXCEPT ![i] = "release"]
              /\ mainPc' = LogPrintf(mainPc)
              /\ UNCHANGED <<outputArg, outputPath, pc>>
         ELSE /\ gpc' = [gpc EXCEPT ![i] = "converting"]
              /\ outputArg' = [outputArg EXCEPT ![i] = final.path]
              /\ outputPath' = [outputPath EXCEPT ![i] = final.path]
              /\ pc' = [pc EXCEPT ![i] = "validate"]
              /\ UNCHANGED mainPc
  /\ UNCHANGED <<disk, env, epubPath, ret, zipReader, volOPFPath, metadata, pages, pageIdx,
                 imgSrcs, imageIndex, histVars, batch, epubFiles, loopIdx, semaphore, wg,
                 maxConcurrency>>

\* processFile(path, finalOutputPath), a stage at a time
Convert(i) ==
  /\ Alive
  /\ gpc[i] = "converting"
  /\ ProcessFileStep(i)

\* processFile has returned: its error is logged
GoLog(i) ==
  /\ Alive
  /\ gpc[i] = "converting"
  /\ pc[i] = "returned"
  /\ gpc' = [gpc EXCEPT ![i] = "release"]
  /\ mainPc' = IF ret[i] # "nil" THEN LogPrintf(mainPc) ELSE mainPc
  /\ UNCHANGED <<disk, convVars, histVars, batch, epubFiles, loopIdx, semaphore, wg,
                 maxConcurrency>>

\* mutant: the slot is given back after a conversion without error only
GoReleaseAfterSuccess(i) ==
  /\ Alive
  /\ gpc[i] = "release"
  /\ semaphore > 0
  /\ semaphore' = IF ret[i] = "nil" THEN semaphore - 1 ELSE semaphore
  /\ gpc' = [gpc EXCEPT ![i] = "done"]
  /\ UNCHANGED <<disk, convVars, histVars, batch, epubFiles, loopIdx, wg, maxConcurrency,
                 mainPc>>

\* defer func() { <-semaphore }()
GoRelease(i) ==
  /\ Alive
  /\ gpc[i] = "release"
  /\ semaphore > 0
  /\ semaphore' = semaphore - 1
  /\ gpc' = [gpc EXCEPT ![i] = "done"]
  /\ UNCHANGED <<disk, convVars, histVars, batch, epubFiles, loopIdx, wg, maxConcurrency,
                 mainPc>>

\* mutant: the goroutine ends without wg.Done()
GoDoneForgotten(i) ==
  /\ Alive
  /\ gpc[i] = "done"
  /\ gpc' = [gpc EXCEPT ![i] = "exited"]
  /\ UNCHANGED <<disk, convVars, histVars, batch, epubFiles, loopIdx, semaphore, wg,
                 maxConcurrency, mainPc>>

\* defer wg.Done()
GoDone(i) ==
  /\ Alive
  /\ gpc[i] = "done"
  /\ wg' = wg - 1
  /\ gpc' = [gpc EXCEPT ![i] = "exited"]
  /\ UNCHANGED <<disk, convVars, histVars, batch, epubFiles, loopIdx, semaphore,
                 maxConcurrency, mainPc>>

Goroutine(i) == GoPrepare(i) \/ Convert(i) \/ GoLog(i) \/ GoRelease(i) \/ GoDone(i)

NextBatch ==
  \/ Discover
  \/ LoopAdd
  \/ LoopSend
  \/ LoopEnd
  \/ Wait
  \/ \E i \in Conv : Goroutine(i)

SpecBatch == InitBatch /\ [][NextBatch]_vars

(***************************************************************************)
(* Vocabulary of the properties: the input as the reader of the EPUB sees  *)
(* it, stated on the archive and not on the variables of processFile       *)
(***************************************************************************)
InputFile(c) == FileAt(disk, epubPath[c]).File
Returned(c) == pc[c] = "returned"
Succeeded(c) == Returned(c) /\ ret[c] = "nil"
Failed(c) == Returned(c) /\ ret[c] \notin {"nil", "none"}

\* entries named exactly name
Named(File, name) == {i \in 1..Len(File) : File[i].Name = name}

\* the container descriptor and the package document of the input
HasContainer(c) == Named(InputFile(c), ContainerXML) # {}
ContainerEntry(c) == InputFile(c)[Min(Named(InputFile(c), ContainerXML))]
ContainerUsable(c) ==
  /\ HasContainer(c)
  /\ ContainerEntry(c).openOk /\ ContainerEntry(c).readOk
  /\ ContainerEntry(c).data.kind \in {"container", "opf", "xhtml"}
PackagePath(c) == IF ContainerEntry(c).data.kind = "container"
                  THEN ContainerEntry(c).data.FullPath ELSE <<>>
HasPackage(c) ==
  /\ ContainerUsable(c)
  /\ PackagePath(c) # <<>>
  /\ Named(InputFile(c), PackagePath(c)) # {}
PackageEntry(c) == InputFile(c)[Min(Named(InputFile(c), PackagePath(c)))]
PackageUsable(c) ==
  /\ HasPackage(c)
  /\ PackageEntry(c).openOk /\ PackageEntry(c).readOk
  /\ PackageEntry(c).data.kind \in {"container", "opf", "xhtml"}
\* the input is an archive the program accepts up to its package document
StructureOk(c) ==
  /\ Ext(epubPath[c]) = EpubExt
  /\ Exists(disk, epubPath[c]) /\ disk[epubPath[c]].zip
  /\ PackageUsable(c)
IsPackage(c) == PackageEntry(c).data.kind = "opf"
SpineOf(c) == IF IsPackage(c) THEN PackageEntry(c).data.Itemrefs ELSE <<>>
ManifestOf(c) == IF IsPackage(c) THEN PackageEntry(c).data.Items ELSE <<>>
MetadataOf(c) == IF IsPackage(c) THEN PackageEntry(c).data.Metadata ELSE NoMetadata

\* a spine entry whose idref no manifest item carries
Dangling(c, k) == \A i \in 1..Len(ManifestOf(c)) : ManifestOf(c)[i].ID # SpineOf(c)[k]
Resolving(c) == {k \in 1..Len(SpineOf(c)) : ~Dangling(c, k)}
HrefOf(c, k) == ManifestOf(c)[Max({i \in 1..Len(ManifestOf(c)) :
                                     ManifestOf(c)[i].ID = SpineOf(c)[k]})].Href
PagePathOf(c, k) == ResolvePath(PackagePath(c), HrefOf(c, k))
\* the entries a page document can be read from
Readable(c, k) == {i \in Named(InputFile(c), PagePathOf(c, k)) :
                     InputFile(c)[i].openOk /\ InputFile(c)[i].readOk}
PageDoc(c, k) == ParseHTML(InputFile(c)[Min(Readable(c, k))].data)

\* positions in a document: the child indices from the root down
RECURSIVE NodePaths(_)
NodePaths(n) == {<<>>} \cup UNION {{<<i>> \o q : q \in NodePaths(n.kids[i])} :
                                     i \in 1..Len(n.kids)}
RECURSIVE NodeAt(_, _)
NodeAt(n, q) == IF q = <<>> THEN n ELSE NodeAt(n.kids[Head(q)], Tail(q))
\* document (pre-)order of two positions
Precedes(q, r) ==
  \/ Len(q) < Len(r) /\ SubSeq(r, 1, Len(q)) = q
  \/ \E i \in 1..Len(q) : /\ i <= Len(r)
                          /\ SubSeq(q, 1, i - 1) = SubSeq(r, 1, i - 1)
                          /\ q[i] < r[i]
IsImage(n) == n.Type = "element" /\ n.Data = "img"
SrcIndexes(n) == {i \in 1..Len(n.Attr) : n.Attr[i].Key = "src"}
\* the img elements of a document that carry a src attribute
ImagePositions(root) == {q \in NodePaths(root) :
                           IsImage(NodeAt(root, q)) /\ SrcIndexes(NodeAt(root, q)) # {}}
\* the j-th of the positions ps in document order
NthPosition(ps, j) == CHOOSE q \in ps : Cardinality({r \in ps : Precedes(r, q)}) = j - 1
SrcOf(n) == n.Attr[Min(SrcIndexes(n))].Val
\* the image references of spine entry k, in document order
RefsOf(c, k) ==
  IF Dangling(c, k) \/ Readable(c, k) = {} THEN <<>>
  ELSE LET doc == PageDoc(c, k)
           path == PagePathOf(c, k)
           ps == ImagePositions(doc)
       IN  [j \in 1..Cardinality(ps) |->
              ResolvePath(path, SrcOf(NodeAt(doc, NthPosition(ps, j))))]
RECURSIVE RefsUpTo(_, _)
\* the image references of the first k spine entries
RefsUpTo(c, k) == IF k = 0 THEN <<>> ELSE RefsUpTo(c, k - 1) \o RefsOf(c, k)
AllRefs(c) == RefsUpTo(c, Len(SpineOf(c)))

\* a spine entry that is not skipped: it resolves, its page document is
\* readable and holds an image
NotSkipped(c) == {k \in 1..Len(SpineOf(c)) : RefsOf(c, k) # <<>>}

\* an image reference that names an entry the archive can open
Copyable(c, ref) == /\ Named(InputFile(c), ref) # {}
                    /\ InputFile(c)[Min(Named(InputFile(c), ref))].openOk
ImageBytes(c, ref) ==
  LET e == InputFile(c)[Min(Named(InputFile(c), ref))]
  IN  IF e.readOk THEN e.data ELSE Garbage

\* the output archive and its page entries
Output(c) == FileAt(disk, OutputOf(c))
IsPageEntry(e) == e.Name # ComicInfoXML
OutPages(c) == SelectSeq(Output(c).File, IsPageEntry)
HasComicInfo(c) == \E i \in 1..Len(Output(c).File) : Output(c).File[i].Name = ComicInfoXML
\* the output writer takes every entry
NoWriteLimit(c) == env[c].writeBudget < 0
Limit(c, n) == IF NoWriteLimit(c) \/ n <= env[c].writeBudget THEN n ELSE env[c].writeBudget
\* the output path holds what it held before the program ran
OutputUntouched(c) == ~Exists(disk, OutputOf(c)) \/ Output(c) = StaleFile

\* the package document has just been read; the pages have just been read
PagesResolved(c) == pc[c] = "create"
ImagesResolved(c) == pc[c] = "images" /\ imageIndex[c] = 0

\* the k-th element of a finite set of numbers, in increasing order
Kth(S, k) == CHOOSE x \in S : Cardinality({y \in S : y < x}) = k - 1
\* the positions of the image references that can be copied
CopyableRefs(c, refs) == {j \in 1..Len(refs) : Copyable(c, refs[j])}
\* number of decimal digits of n >= 1
DecimalDigits(n) == CHOOSE w \in 1..n : 10 ^ (w - 1) <= n /\ n < 10 ^ w
DigitValue(ch) == (CHOOSE d \in 1..10 : Digit[d] = ch) - 1
IsDigit(ch) == \E d \in 1..10 : Digit[d] = ch
RECURSIVE DecimalValue(_)
DecimalValue(ds) == IF ds = <<>> THEN 0
                    ELSE 10 * DecimalValue(SubSeq(ds, 1, Len(ds) - 1)) + DigitValue(ds[Len(ds)])
Names(entries) == [i \in 1..Len(entries) |-> entries[i].Name]

(***************************************************************************)
(* C1                                                                      *)
(***************************************************************************)
\* a spine entry that resolves, whose page document is readable and holds
\* at least one image element
HoldsImage(c, k) ==
  /\ ~Dangling(c, k)
  /\ Readable(c, k) # {}
  /\ \E q \in NodePaths(PageDoc(c, k)) : IsImage(NodeAt(PageDoc(c, k), q))

\* every img element of the input's pages has a non-empty src, and every
\* image reference names an archive entry that opens
SoundImages(c) ==
  /\ \A k \in Resolving(c) :
       Readable(c, k) # {} =>
         \A q \in NodePaths(PageDoc(c, k)) :
           IsImage(NodeAt(PageDoc(c, k), q)) =>
             /\ q \in ImagePositions(PageDoc(c, k))
             /\ SrcOf(NodeAt(PageDoc(c, k), q)) # <<>>
  /\ \A j \in 1..Len(AllRefs(c)) : Copyable(c, AllRefs(c)[j])

\* C1 as claimed: on success the number of page entries is the number of
\* spine entries that resolve, are readable and hold an image element
\* (taken here only for inputs whose images are all sound and whose output
\* takes every entry).
C1_OnePagePerSpineEntry ==
  (Succeeded(1) /\ NoWriteLimit(1) /\ SoundImages(1)) =>
    Len(OutPages(1)) = Cardinality({k \in 1..Len(SpineOf(1)) : HoldsImage(1, k)})

\* C1 as amended: on success the number of page entries is the number of
\* image references (one per img element with a src attribute, over the
\* readable page documents of the resolving spine entries, with
\* multiplicity) that name an archive entry which opens, up to the capacity
\* of the output writer; and a spine with at least one resolving entry never
\* fails the conversion, whatever is dangling, unreadable or imageless.
C1_ImageCount ==
  /\ Succeeded(1) =>
       LET refs == AllRefs(1)
       IN  Len(OutPages(1)) = Limit(1, Cardinality(CopyableRefs(1, refs)))
  /\ (Returned(1) /\ StructureOk(1) /\ Resolving(1) # {} /\ env[1].createOk)
       => Succeeded(1)

\* a successful conversion with a dangling, an imageless and a two-image
\* spine entry
C1_Witness ==
  /\ Succeeded(1) /\ NoWriteLimit(1)
  /\ \E k \in 1..Len(SpineOf(1)) : Dangling(1, k)
  /\ \E k \in Resolving(1) : Readable(1, k) # {} /\ RefsOf(1, k) = <<>>
  /\ \E k \in Resolving(1) : Len(RefsOf(1, k)) = 2
  /\ Len(OutPages(1)) = 2

(***************************************************************************)
(* C2                                                                      *)
(***************************************************************************)
\* C2 as claimed: the k-th page entry is the image of the k-th non-skipped
\* spine entry (taken here only for inputs whose images are all sound and
\* whose output takes every entry).
C2_KthEntryIsKthSpineEntry ==
  (Succeeded(1) /\ NoWriteLimit(1) /\ SoundImages(1)) =>
    \A k \in 1..Len(OutPages(1)) :
      /\ k <= Cardinality(NotSkipped(1))
      /\ LET ref == RefsOf(1, Kth(NotSkipped(1), k))[1]
         IN  Copyable(1, ref) /\ OutPages(1)[k].data = ImageBytes(1, ref)

\* C2 as amended: the image references are collected in spine order and,
\* within a page document, in document order; the k-th page entry is the
\* image of the k-th reference that names an archive entry which opens.
C2_ReadingOrder ==
  /\ pc[1] \in {"images", "comicinfo"} \/ Succeeded(1) => imgSrcs[1] = AllRefs(1)
  /\ Succeeded(1) =>
       LET refs == AllRefs(1)
           js == CopyableRefs(1, refs)
           out == OutPages(1)
       IN  /\ Len(out) <= Cardinality(js)
           /\ \A k \in 1..Len(out) : out[k].data = ImageBytes(1, refs[Kth(js, k)])

\* a spine id occurring twice, around another page, gives its image twice
C2_Witness ==
  /\ Succeeded(1) /\ NoWriteLimit(1)
  /\ Len(SpineOf(1)) = 3 /\ SpineOf(1)[1] = SpineOf(1)[3] /\ SpineOf(1)[1] # SpineOf(1)[2]
  /\ Len(OutPages(1)) = 4
  /\ OutPages(1)[1].data = OutPages(1)[4].data
  /\ OutPages(1)[1].data # OutPages(1)[2].data

(***************************************************************************)
(* C3                                                                      *)
(***************************************************************************)
\* name is "page", then i in exactly as many digits as n has, then ext
PageName(name, i, n, ext) ==
  LET w == DecimalDigits(n)
  IN  /\ Len(name) = Len(PagePrefix) + w + Len(ext)
      /\ SubSeq(name, 1, Len(PagePrefix)) = PagePrefix
      /\ \A x \in (Len(PagePrefix) + 1)..(Len(PagePrefix) + w) : IsDigit(name[x])
      /\ DecimalValue(SubSeq(name, Len(PagePrefix) + 1, Len(PagePrefix) + w)) = i
      /\ SubSeq(name, Len(PagePrefix) + w + 1, Len(name)) = ext

\* C3: the entry written for the image reference of zero-based index i among
\* N references is named "page", i zero-padded to the number of decimal
\* digits of N, and the extension of the source image; N = 5 gives
\* page0..page4 and N = 10 gives page00..page09.
C3_PageNames ==
  (pc[1] \in {"images", "comicinfo"} \/ Succeeded(1)) =>
    LET n == Len(imgSrcs[1])
        js == CopyableRefs(1, imgSrcs[1])
        out == OutPages(1)
    IN  \A k \in 1..Len(out) :
          LET j == Kth(js, k)
              name == out[k].Name
          IN  /\ PageName(name, j - 1, n, Ext(imgSrcs[1][j]))
              /\ n = 5 /\ j = 5 /\ imgSrcs[1][j] = ImgA
                   => name = <<"p", "a", "g", "e", "4", ".", "j">>
              /\ n = 10 /\ j = 10 /\ imgSrcs[1][j] = ImgA
                   => name = <<"p", "a", "g", "e", "0", "9", ".", "j">>

\* ten images converted: the last is page09
C3_Witness ==
  /\ Succeeded(1)
  /\ Len(imgSrcs[1]) = 10
  /\ Len(OutPages(1)) = 10
  /\ OutPages(1)[10].Name = <<"p", "a", "g", "e", "0", "9", ".", "j">>

(***************************************************************************)
(* C4                                                                      *)
(***************************************************************************)
\* the recognized bibliographic fields
Recognized(md) == {md.Title, md.Creator, md.Publisher, md.Series, md.Date,
                   md.Language, md.Identifier, md.Number}
\* a field with a non-empty value
NonEmptyField(md) == \E f \in Recognized(md) : \E i \in 1..Len(f) : f[i] # <<>>

\* C4: a successful conversion has a ComicInfo.xml entry exactly when some
\* recognized field of the package document is non-empty.
C4_ComicInfoIffNonEmptyField ==
  (Succeeded(1) /\ NoWriteLimit(1)) => (HasComicInfo(1) <=> NonEmptyField(MetadataOf(1)))

(***************************************************************************)
(* C5                                                                      *)
(***************************************************************************)
\* C5: the second run on the same input and output path ends as the first
\* did and leaves the same entries, names and contents at the output path.
C5_Idempotent ==
  (runs >= 2 /\ Returned(1)) =>
    /\ ret[1] = firstRun.ret
    /\ Exists(disk, OutputOf(1)) = firstRun.exists
    /\ Output(1) = firstRun.file

\* a second successful run over an output of several entries
C5_Witness ==
  /\ runs = 2 /\ Succeeded(1)
  /\ firstRun.ret = "nil"
  /\ Len(firstRun.file.File) >= 3
  /\ HasComicInfo(1)

(***************************************************************************)
(* C6                                                                      *)
(***************************************************************************)
\* C6: without an entry named exactly META-INF/container.xml, or with a
\* descriptor that gives an empty package path, the conversion ends with an
\* error and writes nothing to the output.
C6_ContainerMissing ==
  (~HasContainer(1) \/ (ContainerUsable(1) /\ PackagePath(1) = <<>>)) =>
    /\ ret[1] # "nil"
    /\ Returned(1) => Failed(1)
    /\ OutputUntouched(1)

\* a zip archive with entries, none named META-INF/container.xml, has failed
\* and the earlier file at the output path is as it was
C6_Witness ==
  /\ Failed(1)
  /\ Len(InputFile(1)) > 0 /\ ~HasContainer(1)
  /\ ret[1] = "error finding container.xml"
  /\ Output(1) = StaleFile

(***************************************************************************)
(* C7                                                                      *)
(***************************************************************************)
\* C7: dangling idrefs are passed over: the pages are those of the other
\* spine entries, in order; with one of them resolving the conversion
\* succeeds; the width of the names is that of the count of references
\* found in those pages; three spine entries, one dangling, the others with
\* one image each, give page0 and page1.
C7_DanglingSkipped ==
  /\ (pc[1] \in {"create", "pages", "images", "comicinfo"} \/ Succeeded(1)) =>
       LET rs == Resolving(1)
       IN  /\ Len(pages[1]) = Cardinality(rs)
           /\ \A k \in 1..Len(pages[1]) : pages[1][k] = PagePathOf(1, Kth(rs, k))
  /\ (Returned(1) /\ StructureOk(1) /\ env[1].createOk
        /\ \E k \in 1..Len(SpineOf(1)) : ~Dangling(1, k))
       => Succeeded(1)
  /\ Succeeded(1) =>
       LET out == OutPages(1)
           width == IF out = <<>> THEN 0 ELSE DecimalDigits(Len(AllRefs(1)))
       IN  \A k \in 1..Len(out) :
             Len(out[k].Name) - Len(PagePrefix) - Len(Ext(out[k].Name)) = width
  /\ (Succeeded(1) /\ NoWriteLimit(1) /\ Len(SpineOf(1)) = 3
        /\ Cardinality(Resolving(1)) = 2
        /\ \A k \in Resolving(1) : RefsOf(1, k) = <<ImgA>> /\ Copyable(1, ImgA))
       => Names(OutPages(1)) = << <<"p", "a", "g", "e", "0", ".", "j">>,
                                  <<"p", "a", "g", "e", "1", ".", "j">> >>

\* three spine entries, the middle one dangling, converted to two pages
C7_Witness ==
  /\ Succeeded(1)
  /\ Len(SpineOf(1)) = 3 /\ Dangling(1, 2) /\ Resolving(1) = {1, 3}
  /\ Names(OutPages(1)) = << <<"p", "a", "g", "e", "0", ".", "j">>,
                             <<"p", "a", "g", "e", "1", ".", "j">> >>

(***************************************************************************)
(* C8                                                                      *)
(***************************************************************************)
\* C8: when no spine entry resolves (empty spine, or every idref dangling)
\* the conversion fails with the empty-spine error and creates no archive.
C8_EmptySpineFails ==
  (StructureOk(1) /\ Resolving(1) = {}) =>
    /\ ret[1] \in {"none", "no pages found in spine"}
    /\ Returned(1) => Failed(1)
    /\ OutputUntouched(1)

\* a spine of dangling idrefs only has failed
C8_Witness ==
  /\ Failed(1)
  /\ StructureOk(1) /\ Len(SpineOf(1)) = 2 /\ Resolving(1) = {}
  /\ ~Exists(disk, OutputOf(1))

(***************************************************************************)
(* C9                                                                      *)
(***************************************************************************)
\* the files whose goroutine was started and has not yet given its slot back
Running == {i \in Conv : gpc[i] \in {"start", "converting", "release"}}
\* the files whose call of processFile is under way
Converting == {i \in Conv : gpc[i] = "converting" /\ ~Returned(i)}
\* a goroutine is started in this step
Starts(i) == gpc[i] = "idle" /\ gpc'[i] = "start"

\* C9: at every moment at most maxConcurrency (runtime.NumCPU()) conversions
\* have started and not yet finished, and a conversion starts only in a step
\* that finds a slot of the semaphore free and takes it.
C9_BoundedConcurrency ==
  /\ [](/\ Cardinality(Running) <= maxConcurrency
        /\ Cardinality(Converting) <= maxConcurrency
        /\ semaphore <= maxConcurrency)
  /\ [][\A i \in Conv : Starts(i) => /\ semaphore < maxConcurrency
                                     /\ Cardinality(Running) < maxConcurrency
                                     /\ semaphore' = semaphore + 1]_vars

\* every slot is taken by a conversion under way and main is held at the
\* semaphore with a file left to start
C9_Witness ==
  /\ maxConcurrency = 2
  /\ Cardinality(Converting) = 2
  /\ \A i \in Converting : pc[i] \in {"pages", "images"}
  /\ mainPc = "send"
  /\ loopIdx < Len(epubFiles)
  /\ semaphore = maxConcurrency

(***************************************************************************)
(* C10                                                                     *)
(***************************************************************************)
Discovered == 1..Len(epubFiles)
\* the directory of file i's output can be made
OutputDirOk(i) == \/ batch.outputDir = <<>>
                  \/ ~batch.recursive
                  \/ TreeEntryOf(batch, epubFiles[i]).mkdirOk
\* the outcome of file i's conversion is the one its own input and its own
\* output's environment give
OwnOutcome(i) ==
  /\ Returned(i) =>
       (Succeeded(i) <=> (StructureOk(i) /\ Resolving(i) # {} /\ env[i].createOk))
  /\ Succeeded(i) =>
       LET refs == AllRefs(i)
           js == CopyableRefs(i, refs)
           out == OutPages(i)
       IN  /\ Len(out) = Limit(i, Cardinality(js))
           /\ \A k \in 1..Len(out) : out[k].data = ImageBytes(i, refs[Kth(js, k)])

\* C10: a file's failure does not end the run or change another file's
\* result: the process is ended only before the first file is started; each
\* conversion's outcome is the one its own input gives; and when
\* processDirectory returns, every discovered file has had its goroutine
\* run to its end, with processFile returned for each file whose output
\* directory could be made, each at an output path of its own.
C10_IndependentOutcomes ==
  /\ mainPc = "fatal" => loopIdx = 0
  /\ \A i \in Discovered : i <= loopIdx => OwnOutcome(i)
  /\ mainPc = "returned" =>
       /\ epubFiles = DiscoverFiles(batch)
       /\ \A i \in Discovered :
            /\ gpc[i] = "exited"
            /\ IF OutputDirOk(i) THEN Returned(i) ELSE pc[i] = "idle"
       /\ \A i, j \in Discovered :
            (i # j /\ Returned(i) /\ Returned(j)) => OutputOf(i) # OutputOf(j)

\* processDirectory has returned over a file that was converted after an
\* earlier file failed, and a file whose output directory could not be made
C10_Witness ==
  /\ mainPc = "returned"
  /\ \E i, j, k \in Discovered :
       /\ i < j /\ Failed(i) /\ Succeeded(j) /\ Len(OutPages(j)) > 0
       /\ ~OutputDirOk(k) /\ gpc[k] = "exited"

(***************************************************************************)
(* C11                                                                     *)
(***************************************************************************)
\* the image references of the first n resolving spine entries
RefsOfPages(c, n) == IF n = 0 THEN <<>> ELSE RefsUpTo(c, Kth(Resolving(c), n))
\* the img elements of a document whose first src attribute is not empty
NonEmptyPositions(root) == {q \in ImagePositions(root) : SrcOf(NodeAt(root, q)) # <<>>}
\* the reference of the first img element with a non-empty src, if any
FirstRefOf(c, k) ==
  IF Dangling(c, k) \/ Readable(c, k) = {} THEN <<>>
  ELSE LET doc == PageDoc(c, k)
           ps == NonEmptyPositions(doc)
       IN  IF ps = {} THEN <<>>
           ELSE <<ResolvePath(PagePathOf(c, k), SrcOf(NodeAt(doc, NthPosition(ps, 1))))>>
RECURSIVE FirstRefsUpTo(_, _)
FirstRefsUpTo(c, k) == IF k = 0 THEN <<>> ELSE FirstRefsUpTo(c, k - 1) \o FirstRefOf(c, k)

\* C11 as claimed: a page document contributes at most one image reference,
\* that of its first img element with a non-empty src (taken here only for
\* inputs whose img elements all have a non-empty src).
C11_FirstImageOnly ==
  ((pc[1] \in {"images", "comicinfo"} \/ Succeeded(1)) /\ SoundImages(1)) =>
    imgSrcs[1] = FirstRefsUpTo(1, Len(SpineOf(1)))

\* C11 as amended: a page document contributes one image reference for each
\* of its img elements that carries a src attribute, in pre-order, resolved
\* from the element's first src attribute, empty or not; an img element
\* without a src attribute contributes nothing. After n pages are read the
\* references are those of the first n resolving spine entries.
C11_EveryImageOfAPage ==
  /\ pc[1] = "pages" => imgSrcs[1] = RefsOfPages(1, pageIdx[1])
  /\ pc[1] = "images" => imgSrcs[1] = RefsOfPages(1, Cardinality(Resolving(1)))
  /\ ImagesResolved(1) =>
       \A k \in Resolving(1) :
         Readable(1, k) # {} =>
           LET doc == PageDoc(1, k)
               imgs == {q \in NodePaths(doc) : IsImage(NodeAt(doc, q))}
               withSrc == {q \in imgs : \E i \in 1..Len(NodeAt(doc, q).Attr) :
                                          NodeAt(doc, q).Attr[i].Key = "src"}
           IN  /\ Len(RefsOf(1, k)) = Cardinality(withSrc)
               /\ doc = DocEmptySrc => RefsOf(1, k) = <<Dir(PagePathOf(1, k))>>
               /\ doc = DocNoSrc => RefsOf(1, k) = <<>>
               /\ doc = DocTwo(SrcB, SrcA) => RefsOf(1, k) = <<ImgB, ImgA>>

\* the pages are read: one with an img of several attributes, one with an
\* img without src, one with an img of empty src, which left a reference to
\* the page's directory
C11_Witness ==
  /\ pc[1] = "images"
  /\ Len(SpineOf(1)) = 3 /\ Resolving(1) = {1, 2, 3}
  /\ PageDoc(1, 2) = DocNoSrc /\ PageDoc(1, 3) = DocEmptySrc
  /\ imgSrcs[1] = <<ImgC, <<"O", "/", "t">>>>

(***************************************************************************)
(* C12                                                                     *)
(***************************************************************************)
\* an image reference that names no entry of the archive
Missing(c, ref) == Named(InputFile(c), ref) = {}

\* C12: the entries emitted carry the consecutive indices 0..M-1, padded to
\* the width of M, where M is the number of entries emitted (taken here for
\* inputs whose img elements have a non-empty src and whose skipped
\* references are those that name no archive entry).
C12_ConsecutiveIndices ==
  (/\ Succeeded(1) /\ NoWriteLimit(1)
   /\ \A k \in Resolving(1) :
        Readable(1, k) # {} => NonEmptyPositions(PageDoc(1, k)) = ImagePositions(PageDoc(1, k))
   /\ \A j \in 1..Len(AllRefs(1)) : Missing(1, AllRefs(1)[j]) \/ Copyable(1, AllRefs(1)[j]))
    => LET out == OutPages(1)
       IN  \A k \in 1..Len(out) :
             PageName(out[k].Name, k - 1, Len(out), Ext(out[k].Name))

(***************************************************************************)
(* C13                                                                     *)
(***************************************************************************)
\* the positions of the output archive that hold a ComicInfo.xml entry
ComicInfoAt(c) == {i \in 1..Len(Output(c).File) : Output(c).File[i].Name = ComicInfoXML}
\* the metadata entry is due and cannot be serialized or written
ComicInfoFails(c) ==
  /\ hasMetadata(MetadataOf(c))
  /\ \/ ~env[c].marshalOk
     \/ ~NoWriteLimit(c) /\ env[c].writeBudget <= Cardinality(CopyableRefs(c, AllRefs(c)))

\* C13: while the page images are written the output has no ComicInfo.xml
\* entry; when one is written it is the last entry of the archive; the step
\* that writes it leaves the page entries as they are and always returns
\* nil; and a conversion whose metadata entry cannot be serialized or
\* written succeeds without it, with its page entries.
C13_ComicInfoLast ==
  /\ [](/\ pc[1] \in {"pages", "images", "comicinfo"} => ComicInfoAt(1) = {}
        /\ Succeeded(1) => ComicInfoAt(1) \subseteq {Len(Output(1).File)}
        /\ (Succeeded(1) /\ hasMetadata(MetadataOf(1)) /\ ~ComicInfoFails(1))
             => ComicInfoAt(1) = {Len(Output(1).File)}
        /\ (Returned(1) /\ StructureOk(1) /\ Resolving(1) # {} /\ env[1].createOk
              /\ ComicInfoFails(1))
             => /\ Succeeded(1)
                /\ ComicInfoAt(1) = {}
                /\ Len(OutPages(1)) = Limit(1, Cardinality(CopyableRefs(1, AllRefs(1)))))
  /\ [][pc[1] = "comicinfo" => /\ pc'[1] = "returned" /\ ret'[1] = "nil"
                               /\ OutPages(1)' = OutPages(1)]_vars

\* a conversion has written three page entries and then ComicInfo.xml
C13_Witness ==
  /\ Succeeded(1)
  /\ Len(OutPages(1)) = 3
  /\ Len(Output(1).File) = 4
  /\ Output(1).File[4].Name = ComicInfoXML

(***************************************************************************)
(* C14                                                                     *)
(***************************************************************************)
\* the Go scheduler runs a goroutine that can take a step: as long as main or
\* a started goroutine is not blocked, one of them goes on
SpecBatchFair ==
  /\ InitBatch
  /\ [][NextBatch]_vars
  /\ WF_vars(NextBatch)

\* C14: processDirectory returns only when every goroutine it started has
\* ended, with no file left to start; and once its loop has begun it does
\* return, from the head of the loop, from the send on the semaphore and
\* from wg.Wait: neither of the two blocks for ever.
C14_BarrierAndReturn ==
  /\ [](mainPc = "returned" =>
          /\ loopIdx = Len(epubFiles)
          /\ wg = 0
          /\ \A i \in Discovered : gpc[i] = "exited" /\ pc[i] \in {"idle", "returned"})
  /\ (mainPc \in {"loop", "send", "wait"}) ~> (mainPc = "returned")

\* processDirectory has returned from more files than there are slots
C14_Witness ==
  /\ mainPc = "returned"
  /\ Len(epubFiles) = MaxFiles
  /\ maxConcurrency < Len(epubFiles)
  /\ \E i \in Discovered : Succeeded(i)

(***************************************************************************)
(* C15                                                                     *)
(***************************************************************************)
\* the elements of the directory of the document at doc
DirElems(doc) == LET es == SplitPath(doc) IN SubSeq(es, 1, Len(es) - 1)
\* ref taken from the directory of the document at doc: the elements of the
\* directory, then those of ref, "." dropped and ".." taking back an element
Under(doc, ref) ==
  JoinElems(CleanElems(DirElems(doc) \o SplitPath(ref), doc # <<>> /\ doc[1] = "/", <<>>))
\* forward slashes between non-empty elements, none in front or at the end
SlashPath(p) == p # <<>> /\ \A i \in 1..Len(SplitPath(p)) : SplitPath(p)[i] \notin {<<>>, <<".">>}
\* the image references of spine entry k, taken from the page's directory
RefsUnder(c, k) ==
  IF Dangling(c, k) \/ Readable(c, k) = {} THEN <<>>
  ELSE LET doc == PageDoc(c, k)
           page == Under(PackagePath(c), HrefOf(c, k))
           ps == ImagePositions(doc)
       IN  [j \in 1..Cardinality(ps) |-> Under(page, SrcOf(NodeAt(doc, NthPosition(ps, j))))]
RECURSIVE RefsUnderUpTo(_, _)
RefsUnderUpTo(c, k) == IF k = 0 THEN <<>> ELSE RefsUnderUpTo(c, k - 1) \o RefsUnder(c, k)

\* C15: a page path is the spine href taken from the directory of the
\* package document, an image reference is the src taken from the directory
\* of its own page document; both are forward-slash paths without a leading
\* slash. With the package document at O/v the href t/1 is the page O/t/1,
\* and in the page O/t/2 the src b.P is O/t/b.P and ../i/a.j is O/i/a.j.
\* Stated where the paths are made: pages when the package document has been
\* read, imgSrcs when the last page has been read.
C15_ResolvedFromOwnDocument ==
  /\ PagesResolved(1) =>
       /\ \A k \in 1..Len(pages[1]) :
            /\ pages[1][k] = Under(volOPFPath[1], HrefOf(1, Kth(Resolving(1), k)))
            /\ SlashPath(pages[1][k])
            /\ (volOPFPath[1] = OpfPath /\ HrefOf(1, Kth(Resolving(1), k)) = Href1)
                 => pages[1][k] = Page1
       /\ volOPFPath[1] = PackagePath(1)
  /\ ImagesResolved(1) =>
       /\ imgSrcs[1] = RefsUnderUpTo(1, Len(SpineOf(1)))
       /\ \A j \in 1..Len(imgSrcs[1]) : SlashPath(imgSrcs[1][j])
       /\ \A k \in Resolving(1) :
            (PagePathOf(1, k) = Page2 /\ Readable(1, k) # {}
               /\ PageDoc(1, k) = DocTwo(SrcB, SrcA))
              => RefsUnder(1, k) = <<ImgB, ImgA>>

\* the package document is named /v: the page t/1 and its image i/a.j were
\* found without the leading slash, and the image was written
C15_Witness ==
  /\ Succeeded(1)
  /\ volOPFPath[1] = <<"/", "v">>
  /\ pages[1] = <<Href1>>
  /\ imgSrcs[1] = <<<<"i", "/", "a", ".", "j">>>>
  /\ Len(OutPages(1)) = 1

(***************************************************************************)
(* C16                                                                     *)
(***************************************************************************)
Hiragana == 12352..12447    \* U+3040-309F
Katakana == 12448..12543    \* U+30A0-30FF
CJK == 19968..40895         \* U+4E00-9FBF
\* the first series value of md, empty when there is none
FirstSeries(md) == IF md.Series = <<>> THEN <<>> ELSE md.Series[1]
MangaOf(md) ==
  IF FirstSeries(md) = <<>> THEN "Unknown"
  ELSE IF \E i \in 1..Len(FirstSeries(md)) :
            FirstSeries(md)[i] \in Hiragana \cup Katakana \cup CJK
       THEN "Yes" ELSE "No"
\* the metadata records written to the output of conversion c
ComicInfos(c) == {Output(c).File[i].data.info : i \in ComicInfoAt(c)}

\* C16: the Manga value of a metadata record is "Unknown" when the first
\* series value is missing or empty, "Yes" when it holds a code point of
\* the Hiragana, Katakana or CJK range, "No" otherwise; the title has no
\* part in it.
C16_MangaOfFirstSeries ==
  /\ PagesResolved(1) =>
       /\ createComicInfo(metadata[1]).Manga = MangaOf(metadata[1])
       /\ metadata[1].Series = <<>> => createComicInfo(metadata[1]).Manga = "Unknown"
  /\ \A info \in ComicInfos(1) :
       /\ info.Manga = MangaOf(MetadataOf(1))
       /\ info.Manga \in {"Yes", "No", "Unknown"}
       /\ info.Manga = "Yes" => info.Series # <<>> /\ info.Series = MetadataOf(1).Series[1]

\* a record was written for a series that ends the CJK range: "Yes"
C16_Witness ==
  /\ Succeeded(1)
  /\ MetadataOf(1).Series = <<<<40895>>>>
  /\ \E info \in ComicInfos(1) : info.Manga = "Yes"

(***************************************************************************)
(* C17                                                                     *)
(***************************************************************************)
\* the errors of processFile that tell a structural failure of the input
StructuralErrors ==
  {"input file must have .epub extension", "error opening EPUB file",
   "error finding container.xml", "error decoding container.xml",
   "vol.opf file not found in container", "error finding vol.opf",
   "error decoding vol.opf", "no pages found in spine"}
\* the stages of processFile that come after os.Create
AfterCreate == {"pages", "images", "comicinfo"}
\* conversion c returns a structural error in this step
FailsOnStructure(c) == ret[c] = "none" /\ ret'[c] \in StructuralErrors

\* C17: an input with a wrong extension, that cannot be opened, without a
\* usable container descriptor or package document, or whose spine resolves
\* to no page, fails with a structural error before os.Create is reached:
\* the step that returns the error is taken from a stage before the
\* creation and leaves the disk alone, and the output path holds what it
\* held before the run (nothing, or the earlier file, never truncated).
C17_StructuralFailureBeforeCreate ==
  /\ []((~StructureOk(1) \/ Resolving(1) = {}) =>
          /\ pc[1] \notin {"create"} \cup AfterCreate
          /\ ret[1] \in {"none"} \cup StructuralErrors
          /\ OutputUntouched(1))
  /\ [](ret[1] \in StructuralErrors =>
          /\ ~StructureOk(1) \/ Resolving(1) = {}
          /\ OutputUntouched(1))
  /\ [][FailsOnStructure(1) =>
          /\ pc[1] \in {"validate", "open", "container", "opf"}
          /\ disk' = disk]_vars

\* a package document that cannot be decoded has failed the conversion, and
\* the earlier file at the output path is as it was
C17_Witness ==
  /\ Failed(1)
  /\ ret[1] = "error decoding vol.opf"
  /\ Exists(disk, OutputOf(1)) /\ Output(1) = StaleFile

(***************************************************************************)
(* C18                                                                     *)
(***************************************************************************)
\* the output of conversion c has been created by the program
OutputWritten(c) == Exists(disk, OutputOf(c)) /\ Output(c) # StaleFile /\ Output(c).zip
Flat(name) == name # <<>> /\ \A i \in 1..Len(name) : name[i] # Separator
\* the entries of the output that carry the metadata record
MetadataEntries(c) ==
  {i \in 1..Len(Output(c).File) : Output(c).File[i].data = ComicInfoData(MetadataOf(c))}

\* C18: in an output archive no two entries have the same name, no name has
\* a directory component, and the entries copied from the input (the page
\* entries) are never named ComicInfo.xml: that name is the metadata
\* record's alone.
C18_DistinctFlatNames ==
  OutputWritten(1) =>
    LET File == Output(1).File
    IN  /\ \A i, j \in 1..Len(File) : i # j => File[i].Name # File[j].Name
        /\ \A i \in 1..Len(File) : Flat(File[i].Name) /\ Base(File[i].Name) = File[i].Name
        /\ \A i \in 1..Len(File) :
             i \notin MetadataEntries(1) =>
               /\ File[i].Name # ComicInfoXML
               /\ HasPrefix(File[i].Name, PagePrefix)
        /\ \A i \in MetadataEntries(1) : File[i].Name = ComicInfoXML

\* one image referenced by two pages, in another directory than a second
\* image: three page entries and the metadata record
C18_Witness ==
  /\ Succeeded(1)
  /\ imgSrcs[1] = <<ImgB, ImgA, ImgA>>
  /\ Len(OutPages(1)) = 3
  /\ HasComicInfo(1)

(***************************************************************************)
(* C19                                                                     *)
(***************************************************************************)
\* the goroutine of file i gives its slot back in this step
Releases(i) == i \in Running /\ gpc'[i] \notin {"start", "converting", "release"}
\* the goroutine of file i has ended without calling processFile
EndedBeforeConversion(i) == gpc[i] = "exited" /\ pc[i] = "idle"

\* C19: the slots held are those of the goroutines started and not yet at
\* the end of their deferred receive; a slot is given back only by a
\* goroutine that ends, one slot per goroutine, whatever the way it ends
\* (output directory not created, conversion failed, conversion done), and
\* a goroutine that has ended never runs again; no slot is held when
\* processDirectory returns.
C19_SlotsReleasedOnce ==
  /\ [](semaphore = Cardinality(Running))
  /\ [](mainPc = "returned" =>
          /\ semaphore = 0
          /\ \A i \in 1..Len(epubFiles) : gpc[i] = "exited")
  /\ [][/\ \A i \in Conv : Releases(i) => semaphore' = semaphore - 1
        /\ semaphore' < semaphore =>
             /\ semaphore' = semaphore - 1
             /\ Cardinality({i \in Conv : Releases(i)}) = 1
        /\ \A i \in Conv : gpc[i] \in {"done", "exited"} => gpc'[i] \in {"done", "exited"}]_vars

\* processDirectory has returned with no slot held, after a goroutine that
\* could not create its output directory, one whose conversion failed and
\* one whose conversion succeeded
C19_Witness ==
  /\ mainPc = "returned"
  /\ semaphore = 0
  /\ \E i, j, k \in 1..Len(epubFiles) :
       /\ EndedBeforeConversion(i)
       /\ gpc[j] = "exited" /\ Failed(j)
       /\ gpc[k] = "exited" /\ Succeeded(k)

(***************************************************************************)
(* C20                                                                     *)
(***************************************************************************)
\* name with the extension of its last element replaced by .cbz
WithCbzExtension(name) == SubSeq(name, 1, Len(name) - Len(Ext(name))) \o CbzExt
\* processFile has accepted the name of file i
PastValidation(i) == pc[i] \notin {"idle", "validate"} /\ ret[i] # "input file must have .epub extension"

\* C20: every file of epubFiles has a name that ends in .epub whatever the
\* case of its letters, none is rejected by processFile for its extension,
\* and the output of each is named as the input with .cbz for extension.
C20_SelectedAccepted ==
  \A i \in 1..Len(epubFiles) :
    /\ HasSuffix(ToLower(epubFiles[i]), EpubExt)
    /\ ret[i] # "input file must have .epub extension"
    /\ PastValidation(i) => Base(outputPath[i]) = WithCbzExtension(Base(epubFiles[i]))

=============================================================================
